---------------------------- MODULE Spec2Model ----------------------------
(***************************************************************************)
(* A model of the SIMA mortality pipeline (backend/engine):                *)
(*   a06_mortality_data  MortalityData.from_inegi / from_hmd, _validate,   *)
(*                       age capping and the cell / vector accessors;      *)
(*   a07_graduation      GraduatedRates (Whittaker-Henderson smoothing);   *)
(*   a08_lee_carter      LeeCarter.fit and its accessors;                  *)
(*   a09_projection      MortalityProjection and its bridge to             *)
(*   a01_life_table      LifeTable;                                        *)
(* and of the start-up cache of the API (backend/api/services/precomputed). *)
(*                                                                         *)
(* Numbers.  numpy works on IEEE doubles; here a number is an exact        *)
(* rational extended with NaN and +/-inf (the values numpy produces for    *)
(* x/0 and 0/0 instead of raising).  Rounding is not modelled.             *)
(*                                                                         *)
(* Units.  A rate is counted in units of 1e-12 per person-year, so that    *)
(* the guard 1e-12 of _validate is the number Eps = 1; accordingly an      *)
(* exposure is counted in units of 1e12 person-years and a death count in  *)
(* deaths.  Log rates are counted in units of ln 2 (see Ln).               *)
(***************************************************************************)
EXTENDS Integers, Sequences, FiniteSets, TLC

VARIABLES
    src,    \* the source files: the rows of the rate, death and exposure tables
    req,    \* the request: sex, year window and age ceiling
    ds,     \* the outcome of from_inegi / from_hmd: a dataset or an error
    obj,    \* SpecAccess: the labelled object the accessors read
    call,   \* SpecAccess: the last accessor call and its outcome
    gin,    \* SpecGrad: the dataset handed to GraduatedRates and its parameters
    gout,   \* SpecGrad: the GraduatedRates object under construction
    lin,    \* SpecLC: the surface handed to LeeCarter.fit
    lout,   \* SpecLC: the fitted model
    pin,    \* SpecProj: the fitted model handed to MortalityProjection, and
            \*           the streams of the random generator
    proj,   \* SpecProj: the projections constructed so far
    pcall,  \* SpecProj: the last call on the first projection and its outcome
    cache,  \* SpecCache: the module-level variables of services/precomputed
    loads,  \* SpecCache: how each call of load_all so far has ended
    ccall   \* SpecCache: the last accessor call and its outcome

vars == <<src, req, ds, obj, call, gin, gout, lin, lout, pin, proj, pcall,
          cache, loads, ccall>>

Idle == [status |-> "idle"]

(***************************************************************************)
(* Bounds of the model.                                                    *)
(***************************************************************************)
NumSrcYears == 2     \* the source tables cover the years 1..NumSrcYears
MaxSrcAge   == 2     \* ... and the ages 0..MaxSrcAge
MaxDefects  == 1     \* how many defects a source may carry

(***************************************************************************)
(* Exact arithmetic on numpy's floats: a rational n/d (d > 0, lowest       *)
(* terms), NaN, or an infinity (n = 1 or -1).                              *)
(***************************************************************************)
Abs(x) == IF x < 0 THEN -x ELSE x

Sgn(x) == IF x < 0 THEN -1 ELSE IF x > 0 THEN 1 ELSE 0

Min2(a, b) == IF a <= b THEN a ELSE b

Max2(a, b) == IF a >= b THEN a ELSE b

RECURSIVE GCD(_, _)
GCD(a, b) == IF b = 0 THEN a ELSE GCD(b, a % b)

Frac(n, d) ==
    LET g == GCD(Abs(n), Abs(d))
        s == IF d < 0 THEN -1 ELSE 1
    IN  [k |-> "num", n |-> (s * n) \div g, d |-> (s * d) \div g]

Int2F(i) == [k |-> "num", n |-> i, d |-> 1]

NaN == [k |-> "nan", n |-> 0, d |-> 0]

Inf(s) == [k |-> "inf", n |-> s, d |-> 0]

IsNaN(v) == v.k = "nan"

IsNum(v) == v.k = "num"

FSgn(v) == Sgn(v.n)

FNeg(v) == [v EXCEPT !.n = -v.n]

FAbs(v) == [v EXCEPT !.n = Abs(v.n)]

FAdd(a, b) ==
    IF IsNaN(a) \/ IsNaN(b) THEN NaN
    ELSE IF a.k = "inf" THEN (IF b.k = "inf" /\ b.n # a.n THEN NaN ELSE a)
    ELSE IF b.k = "inf" THEN b
    ELSE Frac(a.n * b.d + b.n * a.d, a.d * b.d)

FSub(a, b) == FAdd(a, FNeg(b))

FMul(a, b) ==
    IF IsNaN(a) \/ IsNaN(b) THEN NaN
    ELSE IF a.k = "inf" \/ b.k = "inf"
         THEN (IF FSgn(a) = 0 \/ FSgn(b) = 0 THEN NaN ELSE Inf(FSgn(a) * FSgn(b)))
    ELSE Frac(a.n * b.n, a.d * b.d)

\* numpy's true division: x/0 is +/-inf, 0/0 and inf/inf are NaN, no exception.
FDiv(a, b) ==
    IF IsNaN(a) \/ IsNaN(b) THEN NaN
    ELSE IF b.k = "inf" THEN (IF a.k = "inf" THEN NaN ELSE Int2F(0))
    ELSE IF b.n = 0 THEN (IF FSgn(a) = 0 THEN NaN ELSE Inf(FSgn(a)))
    ELSE IF a.k = "inf" THEN Inf(FSgn(a) * FSgn(b))
    ELSE Frac(a.n * b.d, a.d * b.n)

\* a < b; FALSE whenever a NaN is involved, as IEEE comparisons are.
FLt(a, b) ==
    IF IsNaN(a) \/ IsNaN(b) THEN FALSE
    ELSE IF a.k = "inf" THEN a.n < 0 /\ ~(b.k = "inf" /\ b.n < 0)
    ELSE IF b.k = "inf" THEN b.n > 0
    ELSE a.n * b.d < b.n * a.d

FLe(a, b) == ~IsNaN(a) /\ ~IsNaN(b) /\ ~FLt(b, a)

FGt(a, b) == FLt(b, a)

RECURSIVE SumOver(_, _)
SumOver(S, f) ==
    IF S = {} THEN 0
    ELSE LET x == CHOOSE x \in S : TRUE IN f[x] + SumOver(S \ {x}, f)

SetMin(S) == CHOOSE x \in S : \A y \in S : x <= y

RECURSIVE SortedSeq(_)
SortedSeq(S) ==
    IF S = {} THEN <<>>
    ELSE LET m == SetMin(S) IN <<m>> \o SortedSeq(S \ {m})

SeqSet(s) == {s[i] : i \in 1..Len(s)}

\* An array holds its entries: they are computed once, when it is made.
Array(f) == IF f = f THEN f ELSE f


(***************************************************************************)
(* a06_mortality_data: the source tables.                                  *)
(*                                                                         *)
(* A table is the set of rows of a file in long format: a function from    *)
(* the (year, age) keys it has rows for to the value of the row.  The      *)
(* sources are a complete, consistent registry (rate = deaths / exposure   *)
(* in every cell) carrying at most MaxDefects defects: a year, an age or a *)
(* cell without rows (a year or an age in one table or in all, a cell in   *)
(* one table), or a value that is zero,                                    *)
(* negative, or a rate mis-stated by 1.5%.                                  *)
(***************************************************************************)
SrcYears == 1..NumSrcYears

SrcAges == 0..MaxSrcAge

Cells == SrcYears \X SrcAges

Tabs == {"mx", "dx", "ex"}

BaseEx(y, a) == a + 1

BaseDx(y, a) == (y + a) * (a + 1)

Defects ==
    [kind : {"year"}, tab : Tabs \cup {"all"}, y : SrcYears, a : {0}, v : {"drop"}]
    \cup [kind : {"age"}, tab : Tabs \cup {"all"}, y : {0}, a : SrcAges, v : {"drop"}]
    \cup [kind : {"cell"}, tab : Tabs, y : SrcYears, a : SrcAges, v : {"drop"}]
    \cup [kind : {"cell"}, tab : {"dx"}, y : SrcYears, a : SrcAges, v : {"zero"}]
    \cup [kind : {"cell"}, tab : {"ex"}, y : SrcYears, a : SrcAges, v : {"zero", "neg"}]
    \cup [kind : {"cell"}, tab : {"mx"}, y : SrcYears, a : SrcAges, v : {"zero", "off"}]

RECURSIVE SubsetsUpTo(_, _)
SubsetsUpTo(S, k) ==
    IF k = 0 THEN {{}}
    ELSE LET P == SubsetsUpTo(S, k - 1)
         IN  P \cup {p \cup {x} : p \in P, x \in S}

Hits(d, t, c) ==
    /\ d.tab \in {t, "all"}
    /\ \/ d.kind = "year" /\ d.y = c[1]
       \/ d.kind = "age" /\ d.a = c[2]
       \/ d.kind = "cell" /\ d.y = c[1] /\ d.a = c[2]

BaseValue(t, c) ==
    IF t = "dx" THEN Int2F(BaseDx(c[1], c[2]))
    ELSE IF t = "ex" THEN Int2F(BaseEx(c[1], c[2]))
    ELSE Frac(BaseDx(c[1], c[2]), BaseEx(c[1], c[2]))

SourceTable(t, D) ==
    LET dropped(c) == \E d \in D : d.v = "drop" /\ Hits(d, t, c)
        has(c, v)  == \E d \in D : d.v = v /\ Hits(d, t, c)
    IN  [c \in {c \in Cells : ~dropped(c)} |->
            IF has(c, "zero") THEN Int2F(0)
            ELSE IF has(c, "neg") THEN Int2F(-1)
            ELSE IF has(c, "off") THEN FMul(BaseValue(t, c), Frac(203, 200))
            ELSE BaseValue(t, c)]

Sources == {[t \in Tabs |-> SourceTable(t, D)] : D \in SubsetsUpTo(Defects, MaxDefects)}

\* "Male" is a subgroup of the HMD files only; the INEGI files have "Hombres".
Requests ==
    [sex : {"Total"},
     year_start : {1, 2},
     year_end : {NumSrcYears, NumSrcYears + 1},
     age_max : {MaxSrcAge - 1, MaxSrcAge, MaxSrcAge + 1}]
    \cup [sex : {"Male"}, year_start : {1}, year_end : {NumSrcYears},
          age_max : {MaxSrcAge}]

(***************************************************************************)
(* a06_mortality_data: loading, capping, pivoting, validating.             *)
(***************************************************************************)
RECURSIVE FSum(_, _)
FSum(S, t) ==
    IF S = {} THEN Int2F(0)
    ELSE LET c == CHOOSE c \in S : TRUE IN FAdd(t[c], FSum(S \ {c}, t))

\* df[(df.Year >= year_start) & (df.Year <= year_end)]
FilterYears(t, ys, ye) ==
    Array([c \in {c \in DOMAIN t : c[1] >= ys /\ c[1] <= ye} |-> t[c]])

\* Mutant of _cap_ages_sum: the ages above the ceiling are dropped, not summed in.
CapAgesSum_DropOlder(t, age_max) ==
    Array([c \in {c \in DOMAIN t : c[2] <= age_max} |-> t[c]])

\* _cap_ages_sum
CapAgesSum(t, age_max) ==
    LET key(c) == <<c[1], Min2(c[2], age_max)>>
    IN  Array([k \in {key(c) : c \in DOMAIN t} |->
                  FSum({c \in DOMAIN t : key(c) = k}, t)])

\* _cap_ages
CapAges(mx_df, dx_df, ex_df, age_max) ==
    LET keep      == {c \in DOMAIN mx_df : c[2] <= age_max /\ c[2] < age_max}
        top(t)    == {c \in DOMAIN t : c[2] >= age_max}
        topY(t)   == {c[1] : c \in top(t)}
        agg(t, y) == FSum({c \in top(t) : c[1] = y}, t)
        mx_agg(y) == IF y \in topY(dx_df) /\ y \in topY(ex_df)
                     THEN FDiv(agg(dx_df, y), agg(ex_df, y))
                     ELSE NaN
        new       == {<<y, age_max>> : y \in topY(dx_df) \cup topY(ex_df)}
    IN  Array([c \in keep \cup new |-> IF c \in keep THEN mx_df[c] ELSE mx_agg(c[1])])

\* DataFrame.pivot(index="Age", columns="Year", values="Value") and .values:
\* the sorted labels and the array by position, NaN where the table has no row.
Pivot(t) ==
    LET ages  == SortedSeq({c[2] : c \in DOMAIN t})
        years == SortedSeq({c[1] : c \in DOMAIN t})
    IN  [ages |-> ages, years |-> years,
         val |-> Array([p \in (1..Len(ages)) \X (1..Len(years)) |->
                          IF <<years[p[2]], ages[p[1]]>> \in DOMAIN t
                          THEN t[<<years[p[2]], ages[p[1]]>>]
                          ELSE NaN])]

Shape(m) == <<Len(m.ages), Len(m.years)>>

Eps == 1

RelTolPct == 1

\* np.abs(mx - dx / ex) / (mx + 1e-12) for the cell at position p
RelativeError(mx, dx, ex, p) ==
    FDiv(FAbs(FSub(mx.val[p], FDiv(dx.val[p], ex.val[p]))),
         FAdd(mx.val[p], Int2F(Eps)))

\* Mutant of _validate: the exposure check is missing.
ValidateOutcome_NoExposureCheck(mx, dx, ex) ==
    LET P == DOMAIN mx.val
    IN  IF ~(Shape(mx) = Shape(dx) /\ Shape(dx) = Shape(ex)) THEN "shape_mismatch"
        ELSE IF \E m \in {mx, dx, ex} : \E p \in DOMAIN m.val : IsNaN(m.val[p])
             THEN "nan"
        ELSE IF \E p \in P : FLe(mx.val[p], Int2F(0)) THEN "nonpositive_mx"
        ELSE IF P = {} THEN "empty"
        ELSE IF /\ \A p \in P : ~IsNaN(RelativeError(mx, dx, ex, p))
                /\ \E p \in P : FGt(RelativeError(mx, dx, ex, p), Frac(RelTolPct, 100))
             THEN "inconsistent"
        ELSE "ok"

\* Mutant of _validate: the tolerance is 10% instead of 1%.
ValidateOutcome_LooseTolerance(mx, dx, ex) ==
    LET P == DOMAIN mx.val
    IN  IF ~(Shape(mx) = Shape(dx) /\ Shape(dx) = Shape(ex)) THEN "shape_mismatch"
        ELSE IF \E m \in {mx, dx, ex} : \E p \in DOMAIN m.val : IsNaN(m.val[p])
             THEN "nan"
        ELSE IF \E p \in P : FLe(mx.val[p], Int2F(0)) THEN "nonpositive_mx"
        ELSE IF \E p \in P : FLe(ex.val[p], Int2F(0)) THEN "nonpositive_ex"
        ELSE IF P = {} THEN "empty"
        ELSE IF /\ \A p \in P : ~IsNaN(RelativeError(mx, dx, ex, p))
                /\ \E p \in P : FGt(RelativeError(mx, dx, ex, p), Frac(10, 100))
             THEN "inconsistent"
        ELSE "ok"

\* _validate: "ok", or the check that raised.
ValidateOutcome(mx, dx, ex) ==
    LET P == DOMAIN mx.val
    IN  IF ~(Shape(mx) = Shape(dx) /\ Shape(dx) = Shape(ex)) THEN "shape_mismatch"
        ELSE IF \E m \in {mx, dx, ex} : \E p \in DOMAIN m.val : IsNaN(m.val[p])
             THEN "nan"
        ELSE IF \E p \in P : FLe(mx.val[p], Int2F(0)) THEN "nonpositive_mx"
        ELSE IF \E p \in P : FLe(ex.val[p], Int2F(0)) THEN "nonpositive_ex"
        ELSE IF P = {} THEN "empty"
        ELSE IF /\ \A p \in P : ~IsNaN(RelativeError(mx, dx, ex, p))
                /\ \E p \in P : FGt(RelativeError(mx, dx, ex, p), Frac(RelTolPct, 100))
             THEN "inconsistent"
        ELSE "ok"

NoData == [ages |-> <<>>, years |-> <<>>, val |-> <<>>]

\* zero_locs[:5]
SampleSize == 5

\* Positions in the order np.argwhere and np.argmax visit them (row by row).
Before(p, q) == p[1] < q[1] \/ (p[1] = q[1] /\ p[2] < q[2])

\* _validate: the (age, year) cells the message of the raised ValueError names.
\* The NaN message gives the matrix and a count, the exposure message nothing;
\* the rate message samples the first cells of np.argwhere(mx <= 0), the
\* consistency message gives the cell of np.argmax(relative_error).
NamedCells(mx, dx, ex) ==
    LET v      == ValidateOutcome(mx, dx, ex)
        P      == DOMAIN mx.val
        label(p) == <<mx.ages[p[1]], mx.years[p[2]]>>
        nonpos == {p \in P : FLe(mx.val[p], Int2F(0))}
        sample == {p \in nonpos : Cardinality({q \in nonpos : Before(q, p)}) < SampleSize}
        worst  == UNION {{p \in P : \A q \in P :
                            /\ FLe(err[q], err[p])
                            /\ Before(q, p) => FLt(err[q], err[p])} :
                         err \in {[p \in P |-> RelativeError(mx, dx, ex, p)]}}
    IN  IF v = "nonpositive_mx" THEN {label(p) : p \in sample}
        ELSE IF v = "inconsistent" THEN {label(p) : p \in worst}
        ELSE {}

Failure(loader, err) ==
    [status |-> "error", loader |-> loader, err |-> err, named |-> {},
     ages |-> <<>>, years |-> <<>>, mx |-> NoData, dx |-> NoData, ex |-> NoData]

\* cls(country, sex, ages, years, mx, dx, ex): the labels are those of mx_matrix
Dataset(loader, mx, dx, ex) ==
    [status |-> "ok", loader |-> loader, err |-> "none",
     ages |-> mx.ages, years |-> mx.years, mx |-> mx, dx |-> dx, ex |-> ex]

Construct(loader, mx, dx, ex) ==
    LET v == ValidateOutcome(mx, dx, ex)
    IN  IF v = "ok" THEN Dataset(loader, mx, dx, ex)
        ELSE [Failure(loader, v) EXCEPT !.named = NamedCells(mx, dx, ex)]

\* (variant: the deaths and the population are pivoted from the joined rows)
InegiOutcome_JoinedOnly(s, r) ==
    IF r.sex \notin {"Hombres", "Mujeres", "Total"} THEN Failure("inegi", "bad_sex")
    ELSE
    LET dx_raw    == FilterYears(s["dx"], r.year_start, r.year_end)
        ex_raw    == FilterYears(s["ex"], r.year_start, r.year_end)
        dx_capped == CapAgesSum(dx_raw, r.age_max)
        ex_capped == CapAgesSum(ex_raw, r.age_max)
        merged    == DOMAIN dx_capped \cap DOMAIN ex_capped
    IN  IF \E c \in merged : FLe(ex_capped[c], Int2F(0))
        THEN Failure("inegi", "zero_population")
        ELSE LET mx_long == [c \in merged |-> FDiv(dx_capped[c], ex_capped[c])]
             IN  Construct("inegi", Pivot(mx_long),
                           Pivot([c \in merged |-> dx_capped[c]]),
                           Pivot([c \in merged |-> ex_capped[c]]))

\* MortalityData.from_inegi
InegiOutcome(s, r) ==
    IF r.sex \notin {"Hombres", "Mujeres", "Total"} THEN Failure("inegi", "bad_sex")
    ELSE
    LET dx_raw    == FilterYears(s["dx"], r.year_start, r.year_end)
        ex_raw    == FilterYears(s["ex"], r.year_start, r.year_end)
        dx_capped == CapAgesSum(dx_raw, r.age_max)
        ex_capped == CapAgesSum(ex_raw, r.age_max)
        merged    == DOMAIN dx_capped \cap DOMAIN ex_capped
    IN  IF \E c \in merged : FLe(ex_capped[c], Int2F(0))
        THEN Failure("inegi", "zero_population")
        ELSE LET mx_long == [c \in merged |-> FDiv(dx_capped[c], ex_capped[c])]
             IN  Construct("inegi", Pivot(mx_long), Pivot(dx_capped), Pivot(ex_capped))

\* MortalityData.from_hmd
HmdOutcome(s, r) ==
    IF r.sex \notin {"Female", "Male", "Total"} THEN Failure("hmd", "bad_sex")
    ELSE
    LET mx_raw == FilterYears(s["mx"], r.year_start, r.year_end)
        dx_raw == FilterYears(s["dx"], r.year_start, r.year_end)
        ex_raw == FilterYears(s["ex"], r.year_start, r.year_end)
        mx_cap == CapAges(mx_raw, dx_raw, ex_raw, r.age_max)
        dx_cap == CapAgesSum(dx_raw, r.age_max)
        ex_cap == CapAgesSum(ex_raw, r.age_max)
    IN  Construct("hmd", Pivot(mx_cap), Pivot(dx_cap), Pivot(ex_cap))

NotBuilt == [status |-> "none"]

FromInegi ==
    /\ ds.status = "none"
    /\ ds' = InegiOutcome(src, req)
    /\ UNCHANGED <<src, req, obj, call, gin, gout, lin, lout, pin, proj, pcall,
                 cache, loads, ccall>>

FromHmd ==
    /\ ds.status = "none"
    /\ ds' = HmdOutcome(src, req)
    /\ UNCHANGED <<src, req, obj, call, gin, gout, lin, lout, pin, proj, pcall,
                 cache, loads, ccall>>

InitData ==
    /\ src \in Sources
    /\ req \in Requests
    /\ ds = NotBuilt
    /\ obj = Idle /\ call = Idle /\ gin = Idle /\ gout = Idle
    /\ lin = Idle /\ lout = Idle
    /\ pin = Idle /\ proj = Idle /\ pcall = Idle
    /\ cache = Idle /\ loads = Idle /\ ccall = Idle

NextData == FromInegi \/ FromHmd

SpecData == InitData /\ [][NextData]_vars


(***************************************************************************)
(* Claims about dataset construction (SpecData).                           *)
(***************************************************************************)
Built == ds.status \in {"ok", "error"}

Window == req.year_start..req.year_end

Positions(m) == DOMAIN m.val

\* The rows of source table t for year y and the ages A, and their sum.
SrcRows(t, y, A) == {c \in DOMAIN src[t] : c[1] = y /\ c[2] \in A}

SrcSum(t, y, A) == FSum(SrcRows(t, y, A), src[t])

\* The source ages folded into the label a of a capped table.
Folded(a) == IF a = req.age_max THEN {b \in SrcAges : b >= a} ELSE {a}

ZeroExposureCell ==
    \E y \in Window, a \in 0..req.age_max :
        /\ SrcRows("ex", y, Folded(a)) # {}
        /\ FLe(SrcSum("ex", y, Folded(a)), Int2F(0))

\* C1: a source with a cell of the requested window whose exposure, after age
\* capping, is zero or negative makes from_inegi and from_hmd fail (no dataset
\* is returned), and a returned dataset holds no infinite or NaN rate.
C1_ZeroExposureFails ==
    /\ (Built /\ ZeroExposureCell) => (ds.status = "error" /\ ds.mx = NoData)
    /\ ds.status = "ok" => \A p \in Positions(ds.mx) : IsNum(ds.mx.val[p])

C1_Witness ==
    /\ ds.status = "error" /\ ds.loader = "inegi" /\ ds.err = "zero_population"
    /\ ZeroExposureCell

SameShapeNoNaNPositive ==
    /\ Shape(ds.mx) = Shape(ds.dx) /\ Shape(ds.dx) = Shape(ds.ex)
    /\ \A p \in Positions(ds.mx) :
        /\ IsNum(ds.mx.val[p]) /\ IsNum(ds.dx.val[p]) /\ IsNum(ds.ex.val[p])
        /\ ds.mx.val[p].n > 0
        /\ ds.ex.val[p].n > 0

\* |rate - count/exposure| of the cell at position p
RateGap(p) == FAbs(FSub(ds.mx.val[p], FDiv(ds.dx.val[p], ds.ex.val[p])))

\* C2 as stated: every returned dataset has matrices of one shape without NaN,
\* positive rates and exposures, and |rate - count/exposure| / rate <= 1% in
\* every cell.
C2_Original ==
    ds.status = "ok" =>
        /\ SameShapeNoNaNPositive
        /\ \A p \in Positions(ds.mx) :
            FLe(FMul(Int2F(100), RateGap(p)), ds.mx.val[p])

\* C2 as amended: ... and |rate - count/exposure| / (rate + 1e-12) <= 1% in
\* every cell (the relative error is taken against the rate plus the guard
\* 1e-12, so it may exceed 1% of the rate itself).
C2_ValidatedDataset ==
    ds.status = "ok" =>
        /\ SameShapeNoNaNPositive
        /\ \A p \in Positions(ds.mx) :
            FLe(FMul(Int2F(100), RateGap(p)), FAdd(ds.mx.val[p], Int2F(Eps)))

C2_Witness ==
    /\ ds.status = "ok" /\ ds.loader = "hmd"
    /\ \E p \in Positions(ds.mx) : RateGap(p).n > 0

\* C3: a returned dataset has the years axis year_start..year_end and an ages
\* axis of consecutive ages ending at the ceiling; a source lacking a cell of
\* the window (a cell, a whole year or a whole age) makes construction fail.
C3_CompleteWindow ==
    /\ ds.status = "ok" =>
        /\ ds.years = [j \in 1..(req.year_end - req.year_start + 1) |->
                          req.year_start + j - 1]
        /\ \A i \in 1..(Len(ds.ages) - 1) : ds.ages[i + 1] = ds.ages[i] + 1
        /\ Len(ds.ages) > 0 /\ ds.ages[Len(ds.ages)] = req.age_max
    /\ (/\ Built
        /\ \E y \in Window, a \in SrcAges, t \in {"dx", "ex"} :
              a <= req.age_max /\ SrcRows(t, y, Folded(a)) = {})
       => ds.status = "error"

\* C4: in a returned dataset the ceiling-age count (exposure) of every year is
\* the sum of the source counts (exposures) of that year over the ages >= the
\* ceiling, the ceiling-age rate is that count over that exposure, every cell
\* below the ceiling holds the source's values, and no age exceeds the ceiling.
C4_AgeCapping ==
    ds.status = "ok" =>
        \A i \in 1..Len(ds.ages), j \in 1..Len(ds.years) :
            LET a == ds.ages[i]
                y == ds.years[j]
                p == <<i, j>>
            IN  /\ a <= req.age_max
                /\ ds.dx.val[p] = SrcSum("dx", y, Folded(a))
                /\ ds.ex.val[p] = SrcSum("ex", y, Folded(a))
                /\ IF a = req.age_max \/ ds.loader = "inegi"
                   THEN ds.mx.val[p] =
                            FDiv(SrcSum("dx", y, Folded(a)), SrcSum("ex", y, Folded(a)))
                   ELSE /\ <<y, a>> \in DOMAIN src["mx"]
                        /\ ds.mx.val[p] = src["mx"][<<y, a>>]

C4_Witness ==
    /\ ds.status = "ok" /\ ds.loader = "hmd"
    /\ req.age_max < MaxSrcAge
    /\ ds.ages[Len(ds.ages)] = req.age_max
    /\ Len(ds.ages) > 1


(***************************************************************************)
(* The accessors of MortalityData, GraduatedRates and LeeCarter            *)
(* (SpecAccess).  The object read has sorted label axes, as every pivot    *)
(* produces them, and stores in every cell a value that tells the cell:    *)
(* the matrices and vectors are those of a MortalityData (mx), of a        *)
(* GraduatedRates over it (gmx) and of a LeeCarter fitted to it (ax, bx,   *)
(* kt).  A fitted rate exp(a_x + b_x k_t) is stored as its exponent.       *)
(***************************************************************************)
MaxLabel == 3      \* bound: age labels are among 0..MaxLabel, years among 1..MaxLabel

RECURSIVE Bisect(_, _, _, _)
Bisect(a, x, lo, hi) ==
    IF lo >= hi THEN lo
    ELSE LET mid == (lo + hi) \div 2
         IN  IF a[mid + 1] < x THEN Bisect(a, x, mid + 1, hi)
             ELSE Bisect(a, x, lo, mid)

\* np.searchsorted(a, x): the 0-based insertion index, side="left"
SearchSorted(a, x) == Bisect(a, x, 0, Len(a))

Raised == [raised |-> TRUE, value |-> <<>>]

Returned(v) == [raised |-> FALSE, value |-> v]

\* Mutant of _validate_age: the test that the label found is the one asked for
\* is missing.
ValidateAge_NoLabelTest(o, age) ==
    LET idx == SearchSorted(o.ages, age)
    IN  IF idx >= Len(o.ages) THEN Raised ELSE Returned(idx)

\* MortalityData._validate_age: the 0-based row of an age, or ValueError
ValidateAge(o, age) ==
    LET idx == SearchSorted(o.ages, age)
    IN  IF idx >= Len(o.ages) \/ o.ages[idx + 1] # age THEN Raised ELSE Returned(idx)

\* MortalityData._validate_year
ValidateYear(o, year) ==
    LET idx == SearchSorted(o.years, year)
    IN  IF idx >= Len(o.years) \/ o.years[idx + 1] # year THEN Raised ELSE Returned(idx)

\* MortalityData.get_mx
GetMx(o, age, year) ==
    LET age_idx  == ValidateAge(o, age)
        year_idx == ValidateYear(o, year)
    IN  IF age_idx.raised \/ year_idx.raised THEN Raised
        ELSE Returned(o.mx[<<age_idx.value + 1, year_idx.value + 1>>])

\* MortalityData.year_slice: self.mx[:, year_idx]
YearSlice(o, year) ==
    LET year_idx == ValidateYear(o, year)
    IN  IF year_idx.raised THEN Raised
        ELSE Returned([i \in 1..Len(o.ages) |-> o.mx[<<i, year_idx.value + 1>>]])

\* MortalityData.age_slice: self.mx[age_idx, :]
AgeSlice(o, age) ==
    LET age_idx == ValidateAge(o, age)
    IN  IF age_idx.raised THEN Raised
        ELSE Returned([j \in 1..Len(o.years) |-> o.mx[<<age_idx.value + 1, j>>]])

\* GraduatedRates.get_graduated_mx
GetGraduatedMx(o, age, year) ==
    LET age_idx  == SearchSorted(o.ages, age)
        year_idx == SearchSorted(o.years, year)
    IN  IF age_idx >= Len(o.ages) \/ o.ages[age_idx + 1] # age THEN Raised
        ELSE IF year_idx >= Len(o.years) \/ o.years[year_idx + 1] # year THEN Raised
        ELSE Returned(o.gmx[<<age_idx + 1, year_idx + 1>>])

\* LeeCarter.get_ax
GetAx(o, age) ==
    LET idx == SearchSorted(o.ages, age)
    IN  IF idx >= Len(o.ages) \/ o.ages[idx + 1] # age THEN Raised
        ELSE Returned(o.ax[idx + 1])

\* LeeCarter.get_bx
GetBx(o, age) ==
    LET idx == SearchSorted(o.ages, age)
    IN  IF idx >= Len(o.ages) \/ o.ages[idx + 1] # age THEN Raised
        ELSE Returned(o.bx[idx + 1])

\* LeeCarter.get_kt
GetKt(o, year) ==
    LET idx == SearchSorted(o.years, year)
    IN  IF idx >= Len(o.years) \/ o.years[idx + 1] # year THEN Raised
        ELSE Returned(o.kt[idx + 1])

\* LeeCarter.fitted_rate: exp(ax + bx * kt), kept as the exponent
FittedRate(o, age, year) ==
    LET ax == GetAx(o, age)
        bx == GetBx(o, age)
        kt == GetKt(o, year)
    IN  IF ax.raised \/ bx.raised \/ kt.raised THEN Raised
        ELSE Returned([exp_of |-> ax.value + bx.value * kt.value])

AgeQueries == -1..(MaxLabel + 1)

YearQueries == 0..(MaxLabel + 1)

Accessors ==
    {"get_mx", "year_slice", "age_slice", "get_graduated_mx",
     "get_ax", "get_bx", "get_kt", "fitted_rate"}

UsesAge(fn) == fn \notin {"year_slice", "get_kt"}

UsesYear(fn) == fn \notin {"age_slice", "get_ax", "get_bx"}

Answer(fn, o, age, year) ==
    CASE fn = "get_mx" -> GetMx(o, age, year)
      [] fn = "year_slice" -> YearSlice(o, year)
      [] fn = "age_slice" -> AgeSlice(o, age)
      [] fn = "get_graduated_mx" -> GetGraduatedMx(o, age, year)
      [] fn = "get_ax" -> GetAx(o, age)
      [] fn = "get_bx" -> GetBx(o, age)
      [] fn = "get_kt" -> GetKt(o, year)
      [] fn = "fitted_rate" -> FittedRate(o, age, year)

\* One accessor call; an accessor leaves the object as it is.  The outcome
\* stays in `call` until the caller has taken it (TakeResult).
Access(fn) ==
    /\ obj.status = "ready"
    /\ call.status = "idle"
    /\ \E age \in AgeQueries, year \in YearQueries :
        /\ UsesAge(fn) \/ age = 0
        /\ UsesYear(fn) \/ year = 0
        /\ call' = [status |-> "done", fn |-> fn, age |-> age, year |-> year,
                    out |-> Answer(fn, obj, age, year)]
    /\ UNCHANGED <<src, req, ds, obj, gin, gout, lin, lout, pin, proj, pcall,
                 cache, loads, ccall>>

CallGetMx == Access("get_mx")

CallYearSlice == Access("year_slice")

CallAgeSlice == Access("age_slice")

CallGetGraduatedMx == Access("get_graduated_mx")

CallGetAx == Access("get_ax")

CallGetBx == Access("get_bx")

CallGetKt == Access("get_kt")

CallFittedRate == Access("fitted_rate")

TakeResult ==
    /\ call.status = "done"
    /\ call' = Idle
    /\ UNCHANGED <<src, req, ds, obj, gin, gout, lin, lout, pin, proj, pcall,
                 cache, loads, ccall>>

LabelledObject(A, Y) ==
    LET ages  == SortedSeq(A)
        years == SortedSeq(Y)
        P     == (1..Len(ages)) \X (1..Len(years))
    IN  [status |-> "ready", ages |-> ages, years |-> years,
         mx  |-> [p \in P |-> 100 + 10 * p[1] + p[2]],
         gmx |-> [p \in P |-> 200 + 10 * p[1] + p[2]],
         ax  |-> [i \in 1..Len(ages) |-> i],
         bx  |-> [i \in 1..Len(ages) |-> 10 + i],
         kt  |-> [j \in 1..Len(years) |-> 20 + j]]

InitAccess ==
    /\ \E A \in SUBSET (0..MaxLabel) \ {{}}, Y \in SUBSET (1..MaxLabel) \ {{}} :
          obj = LabelledObject(A, Y)
    /\ call = Idle
    /\ src = Idle /\ req = Idle /\ ds = Idle /\ gin = Idle /\ gout = Idle
    /\ lin = Idle /\ lout = Idle
    /\ pin = Idle /\ proj = Idle /\ pcall = Idle
    /\ cache = Idle /\ loads = Idle /\ ccall = Idle

NextAccess ==
    \/ CallGetMx \/ CallYearSlice \/ CallAgeSlice \/ CallGetGraduatedMx
    \/ CallGetAx \/ CallGetBx \/ CallGetKt \/ CallFittedRate
    \/ TakeResult

SpecAccess == InitAccess /\ [][NextAccess]_vars

\* The row (column) carrying a label, 0 when no row carries it.
RowOf(labels, x) ==
    IF \E i \in 1..Len(labels) : labels[i] = x
    THEN CHOOSE i \in 1..Len(labels) : labels[i] = x
    ELSE 0

\* What an accessor has to return for the rows r (age) and c (year).
Stored(fn, r, c) ==
    CASE fn = "get_mx" -> obj.mx[<<r, c>>]
      [] fn = "year_slice" -> [i \in 1..Len(obj.ages) |-> obj.mx[<<i, c>>]]
      [] fn = "age_slice" -> [j \in 1..Len(obj.years) |-> obj.mx[<<r, j>>]]
      [] fn = "get_graduated_mx" -> obj.gmx[<<r, c>>]
      [] fn = "get_ax" -> obj.ax[r]
      [] fn = "get_bx" -> obj.bx[r]
      [] fn = "get_kt" -> obj.kt[c]
      [] fn = "fitted_rate" -> [exp_of |-> obj.ax[r] + obj.bx[r] * obj.kt[c]]

\* C5: every accessor returns the value stored at the row / column whose label
\* equals the requested age / year, and raises for every age or year that is
\* not a label (below the first, above the last or between two labels).
C5_AccessorsExactLabel ==
    call.status = "done" =>
        LET r == IF UsesAge(call.fn) THEN RowOf(obj.ages, call.age) ELSE 1
            c == IF UsesYear(call.fn) THEN RowOf(obj.years, call.year) ELSE 1
        IN  IF r = 0 \/ c = 0 THEN call.out.raised
            ELSE ~call.out.raised /\ call.out.value = Stored(call.fn, r, c)

C5_Witness ==
    /\ call.status = "done" /\ call.fn = "get_mx" /\ call.out.raised
    /\ \E i \in 1..(Len(obj.ages) - 1) :
          obj.ages[i] < call.age /\ call.age < obj.ages[i + 1]
    /\ RowOf(obj.years, call.year) # 0


(***************************************************************************)
(* a07_graduation: GraduatedRates (SpecGrad).                              *)
(*                                                                         *)
(* Rates are powers of two, so that np.log and np.exp are exact: the log   *)
(* of 2^e is e (in units of ln 2), and exp of a log z that is no integer   *)
(* is kept as the number 2^z, written [k |-> "exp", n/d = z].              *)
(***************************************************************************)
NumGradAges  == 3    \* bound: ages of the surface that is smoothed
NumGradYears == 2    \* bound: its years
MaxBumps     == 1    \* bound: cells whose raw log rate is off the age trend
MaxLambda    == 1    \* bound: lambda_param is among 0..MaxLambda
MaxOrder     == 2    \* bound: diff_order is among 1..MaxOrder

RECURSIVE Pow2(_)
Pow2(e) == IF e = 0 THEN 1 ELSE 2 * Pow2(e - 1)

RECURSIVE Log2(_)
Log2(n) == IF n = 1 THEN 0 ELSE 1 + Log2(n \div 2)

\* np.exp, in units of ln 2
Exp(z) ==
    CASE z.k = "nan" -> NaN
      [] z.k = "inf" -> (IF z.n > 0 THEN Inf(1) ELSE Int2F(0))
      [] z.k = "num" /\ z.d = 1 ->
            (IF z.n >= 0 THEN Int2F(Pow2(z.n)) ELSE Frac(1, Pow2(-z.n)))
      [] z.k = "num" /\ z.d # 1 -> [k |-> "exp", n |-> z.n, d |-> z.d]

\* np.log, in units of ln 2, of NaN, 0, a power of two or a number exp made
Ln(v) ==
    CASE v.k = "nan" -> NaN
      [] v.k = "exp" -> Frac(v.n, v.d)
      [] v.k = "inf" -> (IF v.n > 0 THEN Inf(1) ELSE NaN)
      [] v.k = "num" /\ v.n < 0 -> NaN
      [] v.k = "num" /\ v.n = 0 -> Inf(-1)
      [] v.k = "num" /\ v.n = 1 -> Int2F(-Log2(v.d))
      [] v.k = "num" /\ v.n > 1 /\ v.d = 1 -> Int2F(Log2(v.n))

\* A matrix: the entries e of its r rows and c columns
Mat(r, c, e) == [r |-> r, c |-> c, e |-> Array(e)]

RECURSIVE FSumTo(_, _)
FSumTo(n, f) == IF n = 0 THEN Int2F(0) ELSE FAdd(FSumTo(n - 1, f), f[n])

\* A @ B
MatMul(A, B) ==
    Mat(A.r, B.c, [p \in (1..A.r) \X (1..B.c) |->
                      FSumTo(A.c, [k \in 1..A.c |-> FMul(A.e[<<p[1], k>>], B.e[<<k, p[2]>>])])])

Transpose(A) == Mat(A.c, A.r, [p \in (1..A.c) \X (1..A.r) |-> A.e[<<p[2], p[1]>>]])

\* sparse.diags([1.0, -1.0], [0, 1], shape=(r, c))
FirstDifference(r, c) ==
    Mat(r, c, [p \in (1..r) \X (1..c) |->
                  IF p[2] = p[1] THEN Int2F(1) ELSE IF p[2] = p[1] + 1 THEN Int2F(-1) ELSE Int2F(0)])

RECURSIVE DifferenceLoop(_, _)
DifferenceLoop(D, k) ==
    IF k <= 0 THEN D
    ELSE DifferenceLoop(MatMul(FirstDifference(D.r - 1, D.r), D), k - 1)

\* Mutant of _build_difference_matrix: the loop over the higher orders is
\* missing, the matrix is always the first difference.
BuildDifferenceMatrix_FirstOnly(n, order) == FirstDifference(n - 1, n)

\* (variant: the first difference is [-1, 1], as the docstring has it)
BuildDifferenceMatrix_Forward(n, order) ==
    LET D == DifferenceLoop(FirstDifference(n - 1, n), order - 1)
    IN  Mat(D.r, D.c, [p \in DOMAIN D.e |->
                          IF order % 2 = 1 THEN FNeg(D.e[p]) ELSE D.e[p]])

\* GraduatedRates._build_difference_matrix
BuildDifferenceMatrix(n, order) == DifferenceLoop(FirstDifference(n - 1, n), order - 1)

Without(s, j) == [i \in 1..(Len(s) - 1) |-> IF i < j THEN s[i] ELSE s[i + 1]]

\* The determinant of the rows and columns listed, by expansion along a row.
RECURSIVE Det(_, _, _)
Det(e, rows, cols) ==
    IF Len(rows) = 0 THEN Int2F(1)
    ELSE FSumTo(Len(cols),
            [j \in 1..Len(cols) |->
                IF e[<<rows[1], cols[j]>>].n = 0 THEN Int2F(0)
                ELSE FMul(FMul(Int2F(IF j % 2 = 1 THEN 1 ELSE -1), e[<<rows[1], cols[j]>>]),
                          Det(e, Tail(rows), Without(cols, j)))])

\* scipy.sparse.linalg.spsolve(A, b): the solution of A x = b; for a singular
\* A it warns (MatrixRankWarning), raises nothing and returns a vector of NaN.
SpSolve(A, b) ==
    LET idx  == [i \in 1..A.r |-> i]
        detA == Det(A.e, idx, idx)
        Ai(i) == Array([p \in DOMAIN A.e |-> IF p[2] = i THEN b[p[1]] ELSE A.e[p]])
    IN  IF detA.n = 0 THEN [i \in 1..A.r |-> NaN]
        ELSE Array([i \in 1..A.r |-> FDiv(Det(Ai(i), idx, idx), detA)])

\* Mutant of _whittaker_henderson_1d: the right-hand side is m, not W m.
WhittakerHenderson1d_UnweightedRhs(log_rates, weights, lambda_param, diff_order) ==
    LET n       == Len(log_rates)
        D       == BuildDifferenceMatrix(n, diff_order)
        DtD     == MatMul(Transpose(D), D)
        A       == Mat(n, n, [p \in (1..n) \X (1..n) |->
                        FAdd(IF p[1] = p[2] THEN weights[p[1]] ELSE Int2F(0),
                             FMul(Int2F(lambda_param), DtD.e[p]))])
    IN  SpSolve(A, log_rates)

\* GraduatedRates._whittaker_henderson_1d: solve (W + lambda D'D) z = W m
WhittakerHenderson1d(log_rates, weights, lambda_param, diff_order) ==
    LET n       == Len(log_rates)
        D       == BuildDifferenceMatrix(n, diff_order)
        DtD     == MatMul(Transpose(D), D)
        A       == Mat(n, n, [p \in (1..n) \X (1..n) |->
                        FAdd(IF p[1] = p[2] THEN weights[p[1]] ELSE Int2F(0),
                             FMul(Int2F(lambda_param), DtD.e[p]))])
        b       == Array([i \in 1..n |-> FMul(weights[i], log_rates[i])])
    IN  SpSolve(A, b)

Column(m, n, j) == Array([i \in 1..n |-> m[<<i, j>>]])

\* GraduatedRates._graduate_all_years
GraduateAllYears(g) ==
    LET n_ages  == Len(g.ages)
        n_years == Len(g.years)
        log_mx  == Array([p \in DOMAIN g.raw_mx |-> Ln(g.raw_mx[p])])
        w(j)    == IF g.weight_by_exposure THEN Column(g.ex, n_ages, j)
                   ELSE [i \in 1..n_ages |-> Int2F(1)]
        z       == Array([j \in 1..n_years |->
                       WhittakerHenderson1d(Column(log_mx, n_ages, j), w(j),
                                            g.lambda_param, g.diff_order)])
    IN  [p \in DOMAIN g.raw_mx |-> Exp(z[p[2]][p[1]])]

\* (variant: the smoothed rates are kept as the raw rates too)
NewGraduatedRates_RawOverwritten(d, lambda_param, diff_order, weight_by_exposure) ==
    LET g == [status |-> "ok", ages |-> d.ages, years |-> d.years,
              raw_mx |-> d.mx, dx |-> d.dx, ex |-> d.ex,
              lambda_param |-> lambda_param, diff_order |-> diff_order,
              weight_by_exposure |-> weight_by_exposure]
    IN  [f \in DOMAIN g \cup {"mx"} |->
            IF f \in {"mx", "raw_mx"} THEN GraduateAllYears(g) ELSE g[f]]

\* GraduatedRates.__init__
NewGraduatedRates(d, lambda_param, diff_order, weight_by_exposure) ==
    LET g == [status |-> "ok", ages |-> d.ages, years |-> d.years,
              raw_mx |-> d.mx, dx |-> d.dx, ex |-> d.ex,
              lambda_param |-> lambda_param, diff_order |-> diff_order,
              weight_by_exposure |-> weight_by_exposure]
    IN  [f \in DOMAIN g \cup {"mx"} |-> IF f = "mx" THEN GraduateAllYears(g) ELSE g[f]]

\* np.diff(col, n=2) squared and summed, over the columns of log(rates)
Roughness(rates, n_ages, n_years) ==
    LET col(j) == Array([i \in 1..n_ages |-> Ln(rates[<<i, j>>])])
        d2(c)  == Array([i \in 1..(n_ages - 2) |->
                      FAdd(FSub(c[i + 2], FMul(Int2F(2), c[i + 1])), c[i])])
        sq(c)  == FSumTo(n_ages - 2, [i \in 1..(n_ages - 2) |-> FMul(d2(c)[i], d2(c)[i])])
    IN  FSumTo(n_years, [j \in 1..n_years |-> sq(col(j))])

Graduate ==
    /\ gin.status = "ready"
    /\ gout.status = "none"
    /\ gout' = NewGraduatedRates(gin.data, gin.lambda_param, gin.diff_order,
                                 gin.weight_by_exposure)
    /\ UNCHANGED <<src, req, ds, obj, call, gin, lin, lout, pin, proj, pcall,
                 cache, loads, ccall>>

(***************************************************************************)
(* The surfaces smoothed: log rate = the age index (a straight line in     *)
(* age) and exposure 1 everywhere, except in one year, where at most       *)
(* MaxBumps ages have a log rate one higher and the exposure column is     *)
(* zero, one, rising or falling with age, or positive at the first age     *)
(* only.  MortalityData.__init__ validates nothing, so a caller can hand   *)
(* over exposures with zeros.                                              *)
(***************************************************************************)
GradCells == (1..NumGradAges) \X (1..NumGradYears)

ExposureProfiles == {"zero", "unit", "rising", "falling", "first_only"}

ProfileExposure(prof, i) ==
    CASE prof = "zero" -> 0
      [] prof = "unit" -> 1
      [] prof = "rising" -> i
      [] prof = "falling" -> NumGradAges + 1 - i
      [] prof = "first_only" -> (IF i = 1 THEN 1 ELSE 0)

GradLogRate(B, year, p) == p[1] + (IF p[2] = year /\ p[1] \in B THEN 1 ELSE 0)

GradExposure(prof, year, p) == IF p[2] = year THEN ProfileExposure(prof, p[1]) ELSE 1

GradDataset(B, prof, year) ==
    [ages  |-> [i \in 1..NumGradAges |-> i - 1],
     years |-> [j \in 1..NumGradYears |-> j],
     mx    |-> [p \in GradCells |-> Exp(Int2F(GradLogRate(B, year, p)))],
     ex    |-> [p \in GradCells |-> Int2F(GradExposure(prof, year, p))],
     dx    |-> [p \in GradCells |->
                  FMul(Exp(Int2F(GradLogRate(B, year, p))),
                       Int2F(GradExposure(prof, year, p)))]]

InitGrad ==
    /\ \E year \in 1..NumGradYears,
          B \in SubsetsUpTo(1..NumGradAges, MaxBumps),
          prof \in ExposureProfiles,
          lam \in 0..MaxLambda,
          h \in 1..MaxOrder,
          wbe \in BOOLEAN :
          /\ h < NumGradAges
          /\ gin = [status |-> "ready", data |-> GradDataset(B, prof, year),
                    profile |-> prof, year |-> year,
                    lambda_param |-> lam, diff_order |-> h,
                    weight_by_exposure |-> wbe]
    /\ gout = NotBuilt
    /\ src = Idle /\ req = Idle /\ ds = Idle /\ obj = Idle /\ call = Idle
    /\ lin = Idle /\ lout = Idle
    /\ pin = Idle /\ proj = Idle /\ pcall = Idle
    /\ cache = Idle /\ loads = Idle /\ ccall = Idle

NextGrad == Graduate

SpecGrad == InitGrad /\ [][NextGrad]_vars


(***************************************************************************)
(* Claims about smoothing (SpecGrad)                                       *)
(***************************************************************************)
Graduated == gout.status = "ok"

\* The weight vector _graduate_all_years hands to the smoother for year j
WeightsOf(j) ==
    [i \in 1..NumGradAges |->
        IF gin.weight_by_exposure THEN gin.data.ex[<<i, j>>] ELSE Int2F(1)]

AllZeroWeights(j) == \A i \in 1..NumGradAges : WeightsOf(j)[i].n = 0

PositiveWeights == \A j \in 1..NumGradYears : \A i \in 1..NumGradAges : FGt(WeightsOf(j)[i], Int2F(0))

HasNaNYear(j) == \E i \in 1..NumGradAges : IsNaN(gout.mx[<<i, j>>])

\* C6: once a surface with a year whose weight vector is all zero has been
\* handed to GraduatedRates, the outcome is an explicit error; it is never a
\* smoothed surface with NaN in that year.
C6_DegenerateWeightsFail ==
    (gout.status # "none" /\ \E j \in 1..NumGradYears : AllZeroWeights(j))
        => /\ gout.status = "error"
           /\ ~(Graduated /\ \E j \in 1..NumGradYears : AllZeroWeights(j) /\ HasNaNYear(j))

RawRoughness == Roughness(gout.raw_mx, NumGradAges, NumGradYears)

SmoothRoughness == Roughness(gout.mx, NumGradAges, NumGradYears)

C8_LambdaZeroIdentity ==
    (Graduated /\ gin.lambda_param = 0 /\ PositiveWeights)
        => \A p \in GradCells : gout.mx[p] = gin.data.mx[p]

C8_Witness ==
    /\ Graduated /\ gin.lambda_param = 0 /\ PositiveWeights
    /\ gin.weight_by_exposure
    /\ gin.profile = "rising"
    /\ \E p \in GradCells : gout.mx[p] = Exp(Int2F(p[1] + 1))


(***************************************************************************)
(* a08_lee_carter: LeeCarter.fit (SpecLC).                                 *)
(*                                                                         *)
(* np.linalg.svd is modelled by its contract.  A left singular vector is   *)
(* a direction p with R R'p = mu p; the singular value is sqrt(mu) and     *)
(* sigma v = R'u for u = p / |p|.  The directions are looked for in three  *)
(* orthogonal bases of integer vectors (the unit vectors; the constant     *)
(* vector with the Helmert contrasts; a basis with a vector of mixed signs *)
(* and non-zero sum), and the surfaces fitted are built                    *)
(* so that one of them diagonalises R R'.  A vector known up to the        *)
(* irrational factor 1/sqrt(n2) is written [v |-> ..., n2 |-> ...].  The   *)
(* sign of a singular pair is LAPACK's choice: either.                     *)
(***************************************************************************)
NumLCAges   == 2    \* bound: ages of the surface that is fitted
NumLCYears  == 3    \* bound: its years
MaxStrength == 1    \* bound: size of each of the two components of the surface

Norm2(v, n) == FSumTo(n, [i \in 1..n |-> FMul(v[i], v[i])])

Dot(a, b, n) == FSumTo(n, [i \in 1..n |-> FMul(a[i], b[i])])

\* np.mean of a vector
Mean(v, n) == FDiv(FSumTo(n, v), Int2F(n))

BasisVec(n, i) == [x \in 1..n |-> Int2F(IF x = i THEN 1 ELSE 0)]

\* k = 0: the constant vector; k >= 1: k ones, then -k, then zeros
HelmertVec(n, k) ==
    [x \in 1..n |-> Int2F(IF k = 0 \/ x <= k THEN 1 ELSE IF x = k + 1 THEN -k ELSE 0)]

\* (2, -1, 0, ...), (1, 2, 0, ...) and the unit vectors from the third on
SkewVec(n, i) ==
    [x \in 1..n |-> Int2F(IF i = 1 THEN (IF x = 1 THEN 2 ELSE IF x = 2 THEN -1 ELSE 0)
                          ELSE IF i = 2 THEN (IF x = 1 THEN 1 ELSE IF x = 2 THEN 2 ELSE 0)
                          ELSE IF x = i THEN 1 ELSE 0)]

Families(n) ==
    {[i \in 1..n |-> BasisVec(n, i)], [i \in 1..n |-> HelmertVec(n, i - 1)],
     [i \in 1..n |-> SkewVec(n, i)]}

\* R' p
Project(R, p, n, T) == Array([t \in 1..T |-> Dot([x \in 1..n |-> R[<<x, t>>]], p, n)])

\* mu with R R'p = mu p, for a p that is a left singular direction
GramValue(R, p, n, T) == FDiv(Norm2(Project(R, p, n, T), T), Norm2(p, n))

IsLeftSingular(R, p, n, T) ==
    LET w == Project(R, p, n, T)
    IN  \A x \in 1..n :
            FMul(Dot([t \in 1..T |-> R[<<x, t>>]], w, T), Norm2(p, n))
                = FMul(Norm2(w, T), p[x])

\* np.linalg.svd(residual, full_matrices=False), as far as fit reads it:
\* U[:, 0], S[0]**2, np.sum(S**2) and S[0] * Vt[0, :]
Svd(R, n, T) ==
    LET fams == {F \in Families(n) : \A i \in 1..n : IsLeftSingular(R, F[i], n, T)}
        top  == {<<F, i>> \in fams \X (1..n) :
                    \A j \in 1..n : FLe(GramValue(R, F[j], n, T), GramValue(R, F[i], n, T))}
    IN  {[left  |-> [v |-> [x \in 1..n |-> FMul(Int2F(sg), c[1][c[2]][x])],
                     n2 |-> Norm2(c[1][c[2]], n)],
          top2  |-> GramValue(R, c[1][c[2]], n, T),
          all2  |-> FSumTo(n, [i \in 1..n |-> GramValue(R, c[1][i], n, T)]),
          right |-> [v |-> [t \in 1..T |-> FMul(Int2F(sg), Project(R, c[1][c[2]], n, T)[t])],
                     n2 |-> Norm2(c[1][c[2]], n)]] : c \in top, sg \in {1, -1}}

\* LeeCarter._compute_ax: the row means
ComputeAx(log_mx, n, T) == Array([x \in 1..n |-> Mean([t \in 1..T |-> log_mx[<<x, t>>]], T)])

\* LeeCarter._apply_constraints.  bx_raw = left.v / sqrt(n2) and
\* kt_raw = right.v / sqrt(n2): the sign of bx_sum is that of the sum of
\* left.v, bx_raw / bx_sum is left.v / sum, kt_raw * bx_sum is
\* right.v * sum / n2.  Nothing is tested before the division.
ApplyConstraints(bx_raw, kt_raw, n, T) ==
    LET neg    == FLt(FSumTo(n, bx_raw.v), Int2F(0))
        b      == IF neg THEN [x \in 1..n |-> FNeg(bx_raw.v[x])] ELSE bx_raw.v
        k      == IF neg THEN [t \in 1..T |-> FNeg(kt_raw.v[t])] ELSE kt_raw.v
        bx_sum == FSumTo(n, b)
        bx     == Array([x \in 1..n |-> FDiv(b[x], bx_sum)])
        kt     == Array([t \in 1..T |-> FMul(k[t], FDiv(bx_sum, bx_raw.n2))])
        kt_offset == Mean(kt, T)
    IN  [bx |-> bx, kt |-> Array([t \in 1..T |-> FSub(kt[t], kt_offset)]),
         kt_offset |-> kt_offset]

\* -500 and 500, the ends of brentq's bracket and of the scan, in units of
\* ln 2 (500 / ln 2 = 721.3..., shortened to an integer)
BracketLo == Int2F(-721)

BracketHi == Int2F(721)

\* np.linspace(-500, 500, 201): the number of points of the scan
ScanPoints == 201

\* A term exp(.) whose exponent is below -FloatBits is lost when it is
\* added to, or a count of at least 1 is subtracted from, a float64
FloatBits == 54

\* k_candidates = np.linspace(-500, 500, 201)
KCandidates ==
    Array([i \in 0..(ScanPoints - 1) |->
              FAdd(BracketLo, FDiv(FMul(Int2F(i), FSub(BracketHi, BracketLo)),
                                   Int2F(ScanPoints - 1)))])

\* k_candidates[i], i = 0 .. ScanPoints - 1
ScanK(i) == KCandidates[i]

\* The powers of two are worked out up to this exponent (or up to the size
\* of the observed deaths, if they are larger)
PowCap == 20

\* the least c with 2^c > m
RECURSIVE BitLen(_)
BitLen(m) == IF m <= 0 THEN 0 ELSE 1 + BitLen(m \div 2)

\* death_residual(k) of _reestimate_kt for one year, a_x and b_x finite:
\* model_deaths = sum_x exposures_t[x] * 2^(ax[x] + bx[x] * k) is enclosed
\* between two integers, each term between exposure * 2^floor and
\* exposure * 2^ceil of its exponent; "big" says a term alone exceeds
\* 2^cap and so the observed deaths, however large it is (inf, when np.exp
\* overflows): "lo" is then a lower end only.
\* Exposures and observed deaths are whole numbers.
DeathResidual(ax, bx, exposures_t, observed_deaths, n, k) ==
    LET cap  == IF BitLen(observed_deaths) > PowCap THEN BitLen(observed_deaths) ELSE PowCap
        \* ax[x] + bx[x] * k = zn[x] / zd[x]
        zn   == [x \in 1..n |-> ax[x].n * bx[x].d * k.d + bx[x].n * k.n * ax[x].d]
        zd   == [x \in 1..n |-> ax[x].d * bx[x].d * k.d]
        fl   == Array([x \in 1..n |-> zn[x] \div zd[x]])
        ce   == Array([x \in 1..n |-> -((-zn[x]) \div zd[x])])
        big  == \E x \in 1..n : exposures_t[x] > 0 /\ fl[x] >= cap
        lo   == [x \in 1..n |->
                    IF fl[x] < 0 THEN 0
                    ELSE exposures_t[x] * 2^(IF fl[x] > cap THEN cap ELSE fl[x])]
        hi   == [x \in 1..n |->
                    IF ce[x] <= -FloatBits THEN 0
                    ELSE IF ce[x] <= 0 THEN exposures_t[x]
                    ELSE exposures_t[x] * 2^(IF ce[x] > cap THEN cap ELSE ce[x])]
    IN  [big |-> big,
         lo  |-> SumOver(1..n, lo) - observed_deaths,
         hi  |-> SumOver(1..n, hi) - observed_deaths]

\* the sign of a residual: 1, -1, 0, or 2 when the enclosure does not tell
SignOf(r) ==
    IF r.big \/ r.lo > 0 THEN 1
    ELSE IF r.hi < 0 THEN -1
    ELSE IF r.lo = 0 /\ r.hi = 0 THEN 0
    ELSE 2

\* what fa * fb < 0 can evaluate to
ProductNegative(sa, sb) ==
    IF sa = 2 \/ sb = 2 THEN IF sa = 0 \/ sb = 0 THEN {FALSE} ELSE BOOLEAN
    ELSE {sa * sb < 0}

\* what fa * fb > 0 (brentq's "f(a) and f(b) must have different signs")
\* can evaluate to
ProductPositive(sa, sb) ==
    IF sa = 2 \/ sb = 2 THEN IF sa = 0 \/ sb = 0 THEN {FALSE} ELSE BOOLEAN
    ELSE {sa * sb > 0}

\* |f| of a scanned point, enclosed; -1 as upper end stands for "unbounded"
AbsResidual(r) ==
    IF r.big THEN [lo |-> IF r.lo > 0 THEN r.lo ELSE 1, hi |-> -1]
    ELSE IF r.lo >= 0 THEN [lo |-> r.lo, hi |-> r.hi]
    ELSE IF r.hi <= 0 THEN [lo |-> -r.hi, hi |-> -r.lo]
    ELSE [lo |-> 0, hi |-> IF r.hi > -r.lo THEN r.hi ELSE -r.lo]

\* (variant: the low end of the scan, whatever the residuals)
ArgMinAbs_LowEnd(f_vals) == {i \in DOMAIN f_vals : i = 0}

\* np.argmin(np.abs(f_vals)): the indices that can be the first least one
ArgMinAbs(f_vals) ==
    LET a == Array([i \in DOMAIN f_vals |-> AbsResidual(f_vals[i])])
    IN  {i \in DOMAIN f_vals :
            /\ \A j \in DOMAIN f_vals : a[j].hi = -1 \/ a[i].lo <= a[j].hi
            /\ \A j \in DOMAIN f_vals : j < i => ~(a[j].hi # -1 /\ a[j].hi <= a[i].lo)}

\* The whole numbers among which the root of a year is looked for: the time
\* index of a surface of one component is a whole number within this span
RootSpan == MaxStrength * NumLCYears * NumLCAges

\* brentq(death_residual, a, b) on an interval over which the residual
\* changes sign.  The residual is convex in k, so the interval holds one
\* root; it is returned exactly when it is a whole number at which every
\* exponent is whole, otherwise the root is not a number written here:
\* "exact" is FALSE and k is only a point of the interval.
Brentq(ax, bx, exposures_t, observed_deaths, n, a, b, tier) ==
    LET roots == {j \in -RootSpan..RootSpan :
                     /\ FLe(a, Int2F(j)) /\ FLe(Int2F(j), b)
                     /\ SignOf(DeathResidual(ax, bx, exposures_t, observed_deaths, n, Int2F(j))) = 0}
    IN  IF roots # {}
        THEN [k |-> Int2F(CHOOSE j \in roots : TRUE), tier |-> tier, exact |-> TRUE]
        ELSE [k |-> FDiv(FAdd(a, b), Int2F(2)), tier |-> tier, exact |-> FALSE]

\* The scan of the except branch: the first cell of the grid with a sign
\* change, else the argmin
ScanYear(ax, bx, exposures_t, observed_deaths, n) ==
    LET f_vals == Array([i \in 0..(ScanPoints - 1) |->
                           DeathResidual(ax, bx, exposures_t, observed_deaths, n, ScanK(i))])
        sgn    == Array([i \in 0..(ScanPoints - 1) |-> SignOf(f_vals[i])])
        change == Array([i \in 0..(ScanPoints - 2) |-> ProductNegative(sgn[i], sgn[i + 1])])
        first  == {i \in 0..(ScanPoints - 2) :
                      TRUE \in change[i] /\ \A j \in 0..(i - 1) : FALSE \in change[j]}
    IN  {Brentq(ax, bx, exposures_t, observed_deaths, n, ScanK(i), ScanK(i + 1), "scan") :
            i \in first}
        \cup (IF \A i \in 0..(ScanPoints - 2) : FALSE \in change[i]
              THEN {[k |-> ScanK(i), tier |-> "argmin", exact |-> TRUE] : i \in ArgMinAbs(f_vals)}
              ELSE {})

\* One pass of the loop of _reestimate_kt: what is left in kt_new[t], and
\* in "tier" the branch that left it ("nan": brentq returned NaN).  With
\* a NaN among a_x or b_x the residual is NaN at every k: brentq either
\* returns NaN or (scipy that raises ValueError on a NaN value) the scan
\* finds no sign change and np.argmin of the all-NaN |f| is index 0, the
\* low end of the scan.
SolveYear(ax, bx, exposures_t, observed_deaths, n) ==
    IF \E x \in 1..n : ~IsNum(ax[x]) \/ ~IsNum(bx[x])
    THEN {[k |-> NaN, tier |-> "nan", exact |-> TRUE],
          [k |-> BracketLo, tier |-> "argmin", exact |-> TRUE]}
    ELSE LET sa == SignOf(DeathResidual(ax, bx, exposures_t, observed_deaths, n, BracketLo))
             sb == SignOf(DeathResidual(ax, bx, exposures_t, observed_deaths, n, BracketHi))
         IN  (IF FALSE \in ProductPositive(sa, sb)
              THEN {Brentq(ax, bx, exposures_t, observed_deaths, n, BracketLo, BracketHi, "brentq")}
              ELSE {})
             \cup (IF TRUE \in ProductPositive(sa, sb)
                   THEN ScanYear(ax, bx, exposures_t, observed_deaths, n)
                   ELSE {})

\* np.sum(dx[:, t]) and ex[:, t]
ObservedDeaths(data, t) == FSumTo(Len(data.ages), [x \in 1..Len(data.ages) |-> data.dx[<<x, t>>]]).n

ExposuresOf(data, t) == [x \in 1..Len(data.ages) |-> data.ex[<<x, t>>].n]

\* The loop over the years: every way of filling kt_new
SolvedYears(ax, bx, data) ==
    LET n   == Len(data.ages)
        T   == Len(data.years)
        sol == Array([t \in 1..T |->
                        SolveYear(ax, bx, ExposuresOf(data, t), ObservedDeaths(data, t), n)])
    IN  {s \in [1..T -> UNION {sol[t] : t \in 1..T}] : \A t \in 1..T : s[t] \in sol[t]}

\* (variant: the offset of the re-centring is not handed back)
ReestimateKt_NoOffset(kt_new, T) ==
    LET kt_offset == Mean(kt_new, T)
    IN  [kt |-> Array([t \in 1..T |-> FSub(kt_new[t], kt_offset)]), kt_offset |-> Int2F(0)]

\* LeeCarter._reestimate_kt, given the values the root search left
ReestimateKt(kt_new, T) ==
    LET kt_offset == Mean(kt_new, T)
    IN  [kt |-> Array([t \in 1..T |-> FSub(kt_new[t], kt_offset)]), kt_offset |-> kt_offset]

LogMx(data) == Array([p \in DOMAIN data.mx |-> Ln(data.mx[p])])

Residual(data) ==
    LET n  == Len(data.ages)
        T  == Len(data.years)
        ax == ComputeAx(LogMx(data), n, T)
    IN  Array([p \in DOMAIN data.mx |-> FSub(LogMx(data)[p], ax[p[1]])])

\* LeeCarter.fit up to the re-estimation (steps 1 to 5 and the first fold)
FitSvd(data, sv) ==
    LET n  == Len(data.ages)
        T  == Len(data.years)
        ax == ComputeAx(LogMx(data), n, T)
        c  == ApplyConstraints(sv.left, sv.right, n, T)
    IN  [ax |-> Array([x \in 1..n |-> FAdd(ax[x], FMul(c.bx[x], c.kt_offset))]),
         bx |-> c.bx, kt |-> c.kt, row_mean |-> ax,
         explained_variance |-> FDiv(sv.top2, sv.all2)]

\* LeeCarter.fit: the model returned, and in "trace" the locals of fit that
\* the model does not keep
FitFrom(data, reestimate_kt, sv, f, log_mx, solved) ==
    LET n  == Len(data.ages)
        T  == Len(data.years)
        kt_new == [t \in 1..T |-> solved[t].k]
        r  == ReestimateKt(kt_new, T)
    IN  [status |-> "fitted", ages |-> data.ages, years |-> data.years,
         ax |-> IF reestimate_kt
                THEN Array([x \in 1..n |-> FAdd(f.ax[x], FMul(f.bx[x], r.kt_offset))])
                ELSE f.ax,
         bx |-> f.bx,
         kt |-> IF reestimate_kt THEN r.kt ELSE f.kt,
         log_mx |-> log_mx,
         explained_variance |-> f.explained_variance,
         trace |-> [row_mean |-> f.row_mean, bx_raw |-> sv.left, kt_raw |-> sv.right,
                    ax_svd |-> f.ax, kt_new |-> kt_new,
                    tier |-> [t \in 1..T |-> solved[t].tier],
                    exact |-> [t \in 1..T |-> solved[t].exact]]]

\* fit, from its input alone
Fit(data, reestimate_kt, sv, solved) ==
    FitFrom(data, reestimate_kt, sv, FitSvd(data, sv), LogMx(data), solved)

\* fit(data, reestimate_kt).  The fit is followed when every value the root
\* search leaves is a number written here ("exact"); it raises when the
\* search leaves nothing for a year.
FitLC ==
    /\ lin.status = "ready"
    /\ lout.status = "none"
    /\ \E svs \in {Svd(Residual(lin.data), Len(lin.data.ages), Len(lin.data.years))} :
       \E fitOf \in {[sv \in svs |-> FitSvd(lin.data, sv)]}, logmx \in {LogMx(lin.data)} :
       \E years \in {[f \in {[ax |-> fitOf[sv].ax, bx |-> fitOf[sv].bx] : sv \in svs} |->
                        IF lin.reestimate_kt
                        THEN SolvedYears(f.ax, f.bx, lin.data)
                        ELSE {[t \in 1..Len(lin.data.years) |->
                                 [k |-> Int2F(0), tier |-> "none", exact |-> TRUE]]}]} :
          IF \E f \in DOMAIN years : years[f] = {}
          THEN lout' = [status |-> "raised"]
          ELSE \E sv \in svs :
                 \E solved \in years[[ax |-> fitOf[sv].ax, bx |-> fitOf[sv].bx]] :
                    /\ \A t \in 1..Len(lin.data.years) : solved[t].exact
                    /\ lout' = FitFrom(lin.data, lin.reestimate_kt, sv, fitOf[sv], logmx, solved)
    /\ UNCHANGED <<src, req, ds, obj, call, gin, gout, lin, pin, proj, pcall,
                 cache, loads, ccall>>

(***************************************************************************)
(* The surfaces fitted: log rate = a level rising with age plus two        *)
(* components  s1 p1 q1' + s2 p2 q2', p1 and p2 two vectors of one of the  *)
(* bases above, q1 and q2 the first two Helmert contrasts over the years   *)
(* (they sum to zero), s1 and s2 in 0..MaxStrength; the exposure is the    *)
(* age index and the deaths are rate times exposure, but for the year      *)
(* "short" (0: none), where half of them are registered.                   *)
(***************************************************************************)
LCCells == (1..NumLCAges) \X (1..NumLCYears)

LogFloor == 6 * MaxStrength

SurfaceLog(F, i1, i2, s1, s2, p) ==
    LogFloor + p[1]
      + s1 * F[i1][p[1]].n * HelmertVec(NumLCYears, 1)[p[2]].n
      + s2 * F[i2][p[1]].n * HelmertVec(NumLCYears, 2)[p[2]].n

LCDataset(F, i1, i2, s1, s2, short) ==
    [ages  |-> [i \in 1..NumLCAges |-> i - 1],
     years |-> [j \in 1..NumLCYears |-> j],
     mx    |-> [p \in LCCells |-> Exp(Int2F(SurfaceLog(F, i1, i2, s1, s2, p)))],
     ex    |-> [p \in LCCells |-> Int2F(p[1])],
     dx    |-> [p \in LCCells |->
                  FDiv(FMul(Exp(Int2F(SurfaceLog(F, i1, i2, s1, s2, p))), Int2F(p[1])),
                       Int2F(IF p[2] = short THEN 2 ELSE 1))]]

InitLC ==
    /\ \E F \in Families(NumLCAges),
          i1 \in 1..NumLCAges, i2 \in 1..NumLCAges,
          s1 \in 0..MaxStrength, s2 \in 0..MaxStrength,
          short \in 0..NumLCYears, re \in BOOLEAN :
          /\ i1 # i2
          /\ ~re => short = 0
          /\ lin = [status |-> "ready", data |-> LCDataset(F, i1, i2, s1, s2, short),
                    reestimate_kt |-> re]
    /\ lout = NotBuilt
    /\ src = Idle /\ req = Idle /\ ds = Idle /\ obj = Idle /\ call = Idle
    /\ gin = Idle /\ gout = Idle
    /\ pin = Idle /\ proj = Idle /\ pcall = Idle
    /\ cache = Idle /\ loads = Idle /\ ccall = Idle

NextLC == FitLC

SpecLC == InitLC /\ [][NextLC]_vars


(***************************************************************************)
(* Claims about the fit (SpecLC)                                           *)
(***************************************************************************)
Fitted == lout.status = "fitted"

\* 1e-6, the tolerance of the two constraints
ConstraintTol == Frac(1, 1000000)

\* a = b as floats compare: never TRUE with a NaN on either side
FEq(a, b) == ~IsNaN(a) /\ ~IsNaN(b) /\ a = b

SumsToOne(bx) ==
    FLt(FAbs(FSub(FSumTo(NumLCAges, bx), Int2F(1))), ConstraintTol)

SumsToZero(kt) == FLt(FAbs(FSumTo(NumLCYears, kt)), ConstraintTol)

\* C9: after fit, with or without re-estimation and for every surface, the
\* sensitivities b_x sum to 1 and the time index k_t sums to 0, each within
\* 1e-6.
C9_Constraints == Fitted => SumsToOne(lout.bx) /\ SumsToZero(lout.kt)

\* The product U[x, 0] * (S[0] * Vt[0, t]) of the raw singular triple
RawProduct(x, t) ==
    FDiv(FMul(lout.trace.bx_raw.v[x], lout.trace.kt_raw.v[t]), lout.trace.bx_raw.n2)

Reconstruction(x, t) == FAdd(lout.ax[x], FMul(lout.bx[x], lout.kt[t]))

\* C10: after a fit without re-estimation a_x + b_x k_t equals the row mean
\* plus the product of the raw singular triple, in every cell; after a fit
\* with re-estimation it equals the a_x of before the re-estimation plus b_x
\* times the value solved for the year.
C10_ReconstructionKept ==
    Fitted =>
        \A p \in LCCells :
            IF lin.reestimate_kt
            THEN FEq(Reconstruction(p[1], p[2]),
                     FAdd(lout.trace.ax_svd[p[1]], FMul(lout.bx[p[1]], lout.trace.kt_new[p[2]])))
            ELSE FEq(Reconstruction(p[1], p[2]),
                     FAdd(lout.trace.row_mean[p[1]], RawProduct(p[1], p[2])))

\* Every surface drawn has its singular directions among those looked for.
SvdFound ==
    lin.status = "ready" =>
        Svd(Residual(lin.data), Len(lin.data.ages), Len(lin.data.years)) # {}

\* C13: after a fit without re-estimation the age profile a_x is the row
\* mean of the log-rate surface at every age, the offset folded in after
\* the time index was re-centred being zero.
C13_AxIsRowMean ==
    Fitted /\ ~lin.reestimate_kt =>
        \A x \in 1..NumLCAges : FEq(lout.ax[x], lout.trace.row_mean[x])


\* death_residual of the year t at k, with the a_x and b_x that
\* _reestimate_kt was given
YearResidual(t, k) ==
    DeathResidual(lout.trace.ax_svd, lout.bx, ExposuresOf(lin.data, t),
                  ObservedDeaths(lin.data, t), NumLCAges, k)

FiniteInput == \A x \in 1..NumLCAges : IsNum(lout.trace.ax_svd[x]) /\ IsNum(lout.bx[x])

\* model_deaths - observed, of the year t, from the parameters returned
ImpliedResidual(t) ==
    DeathResidual(lout.ax, lout.bx, ExposuresOf(lin.data, t), ObservedDeaths(lin.data, t),
                  NumLCAges, lout.kt[t])

FiniteYear(t) ==
    /\ IsNum(lout.kt[t])
    /\ \A x \in 1..NumLCAges : IsNum(lout.ax[x]) /\ IsNum(lout.bx[x])

\* 1e-3 relative error, as 1 in RelErrDen
RelErrDen == 1000

\* the implied deaths of year t are within 0.1% of the observed ones
DeathsMatched(t) ==
    /\ FiniteYear(t)
    /\ ~ImpliedResidual(t).big
    /\ RelErrDen * ImpliedResidual(t).lo >= -ObservedDeaths(lin.data, t)
    /\ RelErrDen * ImpliedResidual(t).hi <= ObservedDeaths(lin.data, t)

\* they are further than 0.1% from them, or not a number
DeathsOff(t) ==
    \/ ~FiniteYear(t)
    \/ ImpliedResidual(t).big
    \/ RelErrDen * ImpliedResidual(t).lo > ObservedDeaths(lin.data, t)
    \/ RelErrDen * ImpliedResidual(t).hi < -ObservedDeaths(lin.data, t)

RootFound(t) == lout.trace.tier[t] \in {"brentq", "scan"}

\* C11 as stated: after a fit with re-estimation the deaths implied by the
\* returned (re-centred) parameters are within 0.1% of the observed deaths
\* in every year (looked at on the fits whose a_x and b_x are finite).
C11_Original ==
    Fitted /\ lin.reestimate_kt /\ FiniteInput =>
        \A t \in 1..NumLCYears : ~DeathsOff(t)

\* C11: after a fit with re-estimation, in every year for which the root
\* search found a sign change of the death residual (over the bracket or
\* between two neighbouring points of the scan) the deaths implied by the
\* returned, re-centred parameters are within 0.1% of the observed deaths.
C11_DeathsMatchWhereRootFound ==
    Fitted /\ lin.reestimate_kt =>
        \A t \in 1..NumLCYears : RootFound(t) => DeathsMatched(t)

\* a fit that was re-centred by a non-zero offset, with a year solved on the
\* bracket, a year solved in a cell of the scan, both matching the deaths,
\* and overall a year left to the fallback that does not
C11_Witness ==
    /\ Fitted /\ lin.reestimate_kt
    /\ lout.kt # lout.trace.kt_new
    /\ \E t \in 1..NumLCYears : RootFound(t) /\ DeathsMatched(t)
    /\ \E t \in 1..NumLCYears : lout.trace.tier[t] = "argmin" /\ DeathsOff(t) /\ FiniteYear(t)


\* no sign change between the ends of the bracket, nor between two
\* neighbouring points of the scan
NoSignChange(t) ==
    LET sgn == Array([i \in 0..(ScanPoints - 1) |-> SignOf(YearResidual(t, ScanK(i)))])
    IN  /\ TRUE \in ProductPositive(SignOf(YearResidual(t, BracketLo)),
                                    SignOf(YearResidual(t, BracketHi)))
        /\ \A i \in 0..(ScanPoints - 2) : FALSE \in ProductNegative(sgn[i], sgn[i + 1])

\* k is a point of the scan and no point of the scan has a smaller |residual|
LeastScanned(t, k) ==
    LET mine == AbsResidual(YearResidual(t, k))
    IN  /\ \E i \in 0..(ScanPoints - 1) : k = ScanK(i)
        /\ \A j \in 0..(ScanPoints - 1) :
              LET other == AbsResidual(YearResidual(t, ScanK(j)))
              IN  other.hi = -1 \/ mine.lo <= other.hi

\* what _reestimate_kt leaves for the year t when it is the only year
SolvedAlone(t) ==
    {s.k : s \in SolveYear(lout.trace.ax_svd, lout.bx, ExposuresOf(lin.data, t),
                           ObservedDeaths(lin.data, t), NumLCAges)}

\* C12: the re-estimation leaves a value for every year and never raises:
\* every input has an outcome; a year whose residual changes sign neither
\* over the bracket nor in the scan gets the scanned k of least absolute
\* residual; and the value left for a year is the one that year gets on
\* its own, whatever happened to the other years.
C12_ReestimationDegrades ==
    /\ lin.status = "ready" /\ lin.reestimate_kt => lout.status # "raised"
    /\ Fitted /\ lin.reestimate_kt =>
          \A t \in 1..NumLCYears :
              /\ lout.trace.kt_new[t] \in SolvedAlone(t)
              /\ lout.trace.tier[t] = "argmin" =>
                    IF FiniteInput
                    THEN NoSignChange(t) /\ LeastScanned(t, lout.trace.kt_new[t])
                    ELSE lout.trace.kt_new[t] = ScanK(0)
              /\ lout.trace.tier[t] = "scan" =>
                    TRUE \in ProductPositive(SignOf(YearResidual(t, BracketLo)),
                                             SignOf(YearResidual(t, BracketHi)))

\* a fit in which one year was left to the fallback, away from the low end
\* of the scan, and another year was solved in a cell of the scan
C12_Witness ==
    /\ Fitted /\ lin.reestimate_kt /\ FiniteInput
    /\ \E t \in 1..NumLCYears, u \in 1..NumLCYears :
          /\ lout.trace.tier[t] = "argmin" /\ lout.trace.kt_new[t] # ScanK(0)
          /\ lout.trace.tier[u] = "scan"




(***************************************************************************)
(* a09_projection: MortalityProjection, and a01_life_table: LifeTable.     *)
(*                                                                         *)
(* A projection is constructed from a fitted model.  The models are the    *)
(* catalogue FittedModels: parameters fit can return (b sums to 1, k to    *)
(* 0) whose drift and volatility are rationals.  A death rate M stands for *)
(* M ln 2 a year, so that a log rate z (in units of ln 2, as above, and    *)
(* shifted by ln ln 2) gives the rate 2^z and exp(-m) is 2^-M.  The normal *)
(* draws of a generator are a function of its seed alone; which function   *)
(* is the environment's choice among StreamPatterns.                       *)
(***************************************************************************)

MaxHorizon == 2       \* horizon is drawn from 1..MaxHorizon
MaxSims == 2          \* n_simulations is drawn from 1..MaxSims
NumSeeds == 2         \* random_seed is drawn from 1..NumSeeds
RadixLog == 16        \* radix is 2^RadixLog
MaxExactRate == 8     \* 1 - 2^-M is written exactly for M up to this

IntsF(s) == [i \in DOMAIN s |-> Int2F(s[i])]

LCModel(ages, years, ax, bx, kt) ==
    [ages |-> ages, years |-> years, ax |-> IntsF(ax), bx |-> IntsF(bx), kt |-> IntsF(kt)]

FittedModels ==
    << LCModel(<<0, 1, 2>>, <<1, 2, 3, 4>>, <<4, 1, 2>>, <<1, 0, 0>>, <<2, 0, -1, -1>>),
       LCModel(<<0, 1, 2>>, <<1, 2, 3, 4>>, <<0, 1, 2>>, <<-1, 0, 2>>, <<2, 0, -1, -1>>),
       LCModel(<<0, 1, 2>>, <<1, 2, 3, 4>>, <<8, 1, 2>>, <<1, 0, 0>>, <<3, 1, -1, -3>>),
       LCModel(<<0, 1, 2>>, <<1, 2, 3, 4>>, <<1, 1, 2>>, <<1, 0, 0>>, <<-3, -1, 1, 3>>),
       LCModel(<<0, 1, 2>>, <<1, 2, 3, 4>>, <<0, 1, 2>>, <<1, 0, 0>>, <<-2, 0, 1, 1>>),
       LCModel(<<0, 1, 2>>, <<1, 2, 3, 4>>, <<2, 1, 2>>, <<1, 0, 0>>, <<0, 0, 0, 0>>),
       LCModel(<<0, 1, 2>>, <<1, 2, 3, 4>>, <<11, 1, 2>>, <<1, 0, 0>>, <<4, 2, -1, -5>>),
       LCModel(<<0, 1, 2>>, <<1, 2>>, <<6, 1, 2>>, <<1, 0, 0>>, <<1, -1>>),
       LCModel(<<0, 2, 3>>, <<1, 2, 3, 4>>, <<4, 1, 2>>, <<1, 0, 0>>, <<2, 0, -1, -1>>) >>

\* What rng.normal returns, draw after draw, for the generators of the seeds
StreamPatterns ==
    << <<1, -1, -1, 1>>, <<1, 1, -1, -1>>, <<-1, 1, 1, 1>>, <<1, 1, 1, 1>>, <<-1, -1, 1, -1>> >>

Seeds == 1..NumSeeds

StreamsFrom(base) ==
    [s \in Seeds |-> StreamPatterns[((base + s - 2) % Len(StreamPatterns)) + 1]]

PRaised(err) == [raised |-> TRUE, error |-> err, value |-> <<>>]

PReturned(v) == [raised |-> FALSE, error |-> "", value |-> v]

\* A value that is a real number of the program but not a rational here
Unwritten == [k |-> "unwritten", n |-> 0, d |-> 0]

ISqrt(n) == CHOOSE r \in 0..n : r * r <= n /\ (r + 1) * (r + 1) > n

\* np.sqrt
FSqrt(v) ==
    CASE v.k = "nan" -> NaN
      [] v.k = "inf" -> (IF v.n > 0 THEN v ELSE NaN)
      [] v.k = "num" /\ v.n < 0 -> NaN
      [] v.k = "num" /\ v.n >= 0 ->
            (IF ISqrt(v.n) * ISqrt(v.n) = v.n /\ ISqrt(v.d) * ISqrt(v.d) = v.d
             THEN Frac(ISqrt(v.n), ISqrt(v.d)) ELSE Unwritten)
      [] OTHER -> Unwritten

\* np.std(v, ddof): the mean is sum/len, the divisor max(len - ddof, 0)
Std(v, ddof) ==
    LET len  == Len(v)
        mean == FDiv(FSumTo(len, v), Int2F(len))
        sq   == [i \in 1..len |-> FMul(FSub(v[i], mean), FSub(v[i], mean))]
    IN  FSqrt(FDiv(FSumTo(len, sq), Int2F(Max2(len - ddof, 0))))

\* MortalityProjection._estimate_drift_and_sigma
EstimateDriftAndSigma(kt) ==
    LET n     == Len(kt)
        drift == FDiv(FSub(kt[n], kt[1]), Int2F(n - 1))
        diffs == [i \in 1..(n - 1) |-> FSub(kt[i + 1], kt[i])]
        innovations == [i \in 1..(n - 1) |-> FSub(diffs[i], drift)]
    IN  [drift |-> drift, sigma |-> Std(innovations, 1)]

\* MortalityProjection._project_kt_central
ProjectKtCentral(kt, drift, horizon) ==
    [h \in 1..horizon |-> FAdd(kt[Len(kt)], FMul(Int2F(h), drift))]

\* (variant: the generator takes fresh entropy and not the seed)
DefaultRng_Entropy(streams, random_seed, fresh) == streams[fresh]

\* np.random.default_rng(seed): the generator, known by the draws it will give
DefaultRng(streams, random_seed, fresh) == streams[random_seed]

\* rng.normal(0, 1, size=(n, h)): the draws fill the matrix row after row
Normal(rng, n, h) ==
    [i \in 1..n |-> [j \in 1..h |-> Int2F(rng[(((i - 1) * h + j - 1) % Len(rng)) + 1])]]

\* np.cumsum(m, axis=1)
CumSum(m) == [i \in DOMAIN m |-> [j \in DOMAIN m[i] |-> FSumTo(j, m[i])]]

\* MortalityProjection._simulate_kt_paths
SimulateKtPaths(kt, drift, sigma, rng, n_simulations, horizon) ==
    LET innovations == Normal(rng, n_simulations, horizon)
        walk == CumSum(innovations)
    IN  [i \in 1..n_simulations |->
            [h \in 1..horizon |->
                FAdd(FAdd(kt[Len(kt)], FMul(Int2F(h), drift)), FMul(sigma, walk[i][h]))]]

\* MortalityProjection.__init__
Projection(lee_carter, horizon, n_simulations, random_seed, rng) ==
    LET last_year == lee_carter.years[Len(lee_carter.years)]
        est == EstimateDriftAndSigma(lee_carter.kt)
    IN  [lee_carter |-> lee_carter, horizon |-> horizon,
         n_simulations |-> n_simulations, random_seed |-> random_seed,
         projected_years |-> [h \in 1..horizon |-> last_year + h],
         drift |-> est.drift, sigma |-> est.sigma,
         kt_central |-> ProjectKtCentral(lee_carter.kt, est.drift, horizon),
         kt_simulated |-> SimulateKtPaths(lee_carter.kt, est.drift, est.sigma, rng,
                                          n_simulations, horizon)]

\* (variant: a year the search places inside the projected years is taken)
ValidateProjectionYear_NoLabelTest(p, year) ==
    LET idx == SearchSorted(p.projected_years, year)
    IN  IF idx >= Len(p.projected_years) THEN PRaised("ValueError") ELSE PReturned(idx)

\* MortalityProjection._validate_projection_year: the 0-based index of a year
ValidateProjectionYear(p, year) ==
    LET idx == SearchSorted(p.projected_years, year)
    IN  IF idx >= Len(p.projected_years) \/ p.projected_years[idx + 1] # year
        THEN PRaised("ValueError")
        ELSE PReturned(idx)

\* MortalityProjection.get_projected_mx
GetProjectedMx(p, age, year) ==
    LET v == ValidateProjectionYear(p, year)
        lc == p.lee_carter
        age_idx == SearchSorted(lc.ages, age)
    IN  IF v.raised THEN v
        ELSE IF age_idx >= Len(lc.ages) THEN PRaised("IndexError")
        ELSE PReturned(Exp(FAdd(lc.ax[age_idx + 1],
                                FMul(lc.bx[age_idx + 1], p.kt_central[v.value + 1]))))

RECURSIVE SortF(_)
\* np.sort of numbers
SortF(v) ==
    IF Len(v) = 0 THEN <<>>
    ELSE LET i == CHOOSE i \in 1..Len(v) : \A j \in 1..Len(v) : FLe(v[i], v[j])
         IN  <<v[i]>> \o SortF(SubSeq(v, 1, i - 1) \o SubSeq(v, i + 1, Len(v)))

\* np.quantile(v, q), method "linear": NaN if a NaN is among the values, else
\* the value at the position q (n - 1) of the sorted values, interpolated
Quantile(v, q) ==
    IF \E i \in 1..Len(v) : IsNaN(v[i]) THEN NaN
    ELSE LET n    == Len(v)
             pos  == FMul(q, Int2F(n - 1))
             prev == pos.n \div pos.d
             next == Min2(prev + 1, n - 1)
             t    == FSub(pos, Int2F(prev))
             srt  == SortF(v)
             a    == srt[prev + 1]
             b    == srt[next + 1]
         IN  FAdd(a, FMul(FSub(b, a), t))

\* MortalityProjection.get_confidence_interval
GetConfidenceInterval(p, age, year, quantiles) ==
    LET v == ValidateProjectionYear(p, year)
        lc == p.lee_carter
        age_idx == SearchSorted(lc.ages, age)
        rates == [i \in 1..p.n_simulations |->
                    Exp(FAdd(lc.ax[age_idx + 1],
                             FMul(lc.bx[age_idx + 1], p.kt_simulated[i][v.value + 1])))]
    IN  IF v.raised THEN v
        ELSE IF age_idx >= Len(lc.ages) THEN PRaised("IndexError")
        ELSE PReturned(<<Quantile(rates, quantiles[1]), Quantile(rates, quantiles[2])>>)

\* LifeTable._compute_derivatives: KeyError where an age of range(min_age,
\* max_age), or the next one, has no l_x
ComputeDerivatives(min_age, max_age, l_x) ==
    LET inner == min_age..(max_age - 1)
        d == [age \in inner |-> FSub(l_x[age], l_x[age + 1])]
        q == [age \in inner |-> IF FGt(l_x[age], Int2F(0)) THEN FDiv(d[age], l_x[age])
                                ELSE Int2F(1)]
    IN  IF \E age \in inner : age \notin DOMAIN l_x \/ age + 1 \notin DOMAIN l_x
        THEN PRaised("KeyError")
        ELSE PReturned(
               [min_age |-> min_age, max_age |-> max_age, l_x |-> l_x,
                d_x |-> [age \in min_age..max_age |->
                            IF age = max_age THEN l_x[max_age] ELSE d[age]],
                q_x |-> [age \in min_age..max_age |->
                            IF age = max_age THEN Int2F(1) ELSE q[age]],
                p_x |-> [age \in min_age..max_age |->
                            IF age = max_age THEN Int2F(0) ELSE FSub(Int2F(1), q[age])]])

\* LifeTable.__init__
LifeTable(ages, l_x_values) ==
    IF Len(ages) # Len(l_x_values) \/ Len(ages) < 2 THEN PRaised("ValueError")
    ELSE LET S == {ages[i] : i \in 1..Len(ages)}
             min_age == CHOOSE a \in S : \A b \in S : a <= b
             max_age == CHOOSE a \in S : \A b \in S : a >= b
             l_x == [a \in S |-> l_x_values[CHOOSE i \in 1..Len(ages) :
                                    ages[i] = a /\ \A j \in (i + 1)..Len(ages) : ages[j] # a]]
         IN  ComputeDerivatives(min_age, max_age, l_x)

\* 1.0 - np.exp(-mx) in double precision: 2^-M is lost beside 1.0 from
\* M = FloatBits on
OneMinusExpNeg(mx) ==
    CASE mx.k = "nan" -> NaN
      [] mx.k = "inf" -> (IF mx.n > 0 THEN Int2F(1) ELSE Inf(-1))
      [] mx.k = "num" /\ mx.d = 1 /\ mx.n >= FloatBits -> Int2F(1)
      [] mx.k = "num" /\ mx.d = 1 /\ mx.n >= 0 /\ mx.n <= MaxExactRate ->
            Frac(2^mx.n - 1, 2^mx.n)
      [] OTHER -> Unwritten

\* np.clip(q, 0.0, 1.0)
Clip01(q) ==
    IF ~(IsNum(q) \/ q.k = "inf") THEN q
    ELSE IF FLt(q, Int2F(0)) THEN Int2F(0)
    ELSE IF FGt(q, Int2F(1)) THEN Int2F(1)
    ELSE q

RECURSIVE BuildLx_UnitRadix(_, _, _)
\* (variant: the cohort starts at 1 whatever the radix)
BuildLx_UnitRadix(qx, radix, i) ==
    IF i = 1 THEN Int2F(1)
    ELSE FMul(BuildLx_UnitRadix(qx, radix, i - 1), FSub(Int2F(1), qx[i - 1]))

RECURSIVE BuildLx(_, _, _)
\* lx[0] = radix; lx[i + 1] = lx[i] * (1.0 - qx[i])
BuildLx(qx, radix, i) ==
    IF i = 1 THEN radix
    ELSE FMul(BuildLx(qx, radix, i - 1), FSub(Int2F(1), qx[i - 1]))

\* The q_x of the bridge: steps 1 to 4 of to_life_table, and of _build_lt
BridgeQx(lc, kt_val) ==
    LET n == Len(lc.ages)
    IN  Array([x \in 1..n |->
                 IF x = n THEN Int2F(1)
                 ELSE Clip01(OneMinusExpNeg(Exp(FAdd(lc.ax[x], FMul(lc.bx[x], kt_val)))))])

\* (variant: the tables start from the default radix of the signature)
BuildLt_DefaultRadix(lc, kt_val, radix) ==
    LET n  == Len(lc.ages)
        qx == BridgeQx(lc, kt_val)
    IN  LifeTable(lc.ages, [x \in 1..n |-> BuildLx(qx, Int2F(100000), x)])

\* to_life_table_with_ci._build_lt
BuildLt(lc, kt_val, radix) ==
    LET n  == Len(lc.ages)
        qx == BridgeQx(lc, kt_val)
    IN  LifeTable(lc.ages, [x \in 1..n |-> BuildLx(qx, radix, x)])

\* The values of a sequence at the positions of a mask (ages[mask], lx[mask])
Masked(v, keep) ==
    LET idx == {i \in 1..Len(v) : keep[i]}
    IN  [j \in 1..Cardinality(idx) |->
            v[CHOOSE i \in idx : Cardinality({h \in idx : h < i}) = j - 1]]

\* MortalityProjection.to_life_table; age_min and age_max are {} for None
ToLifeTable(p, year, radix, age_min, age_max) ==
    LET v  == ValidateProjectionYear(p, year)
        lc == p.lee_carter
        n  == Len(lc.ages)
        qx == BridgeQx(lc, p.kt_central[v.value + 1])
        lx == [x \in 1..n |-> BuildLx(qx, radix, x)]
        a_min == IF age_min = {} THEN lc.ages[1] ELSE CHOOSE a \in age_min : TRUE
        a_max == IF age_max = {} THEN lc.ages[n] ELSE CHOOSE a \in age_max : TRUE
        mask  == [x \in 1..n |-> lc.ages[x] >= a_min /\ lc.ages[x] <= a_max]
    IN  IF v.raised THEN v
        ELSE IF age_min # {} \/ age_max # {}
             THEN LifeTable(Masked(lc.ages, mask), Masked(lx, mask))
             ELSE LifeTable(lc.ages, lx)

\* MortalityProjection.to_life_table_with_ci: central, optimistic, pessimistic
ToLifeTableWithCi(p, year, quantile_low, quantile_high, radix) ==
    LET v  == ValidateProjectionYear(p, year)
        lc == p.lee_carter
        kt_sims == [i \in 1..p.n_simulations |-> p.kt_simulated[i][v.value + 1]]
        kt_low  == Quantile(kt_sims, quantile_low)
        kt_high == Quantile(kt_sims, quantile_high)
        central == BuildLt(lc, p.kt_central[v.value + 1], radix)
        optimistic  == BuildLt(lc, kt_low, radix)
        pessimistic == BuildLt(lc, kt_high, radix)
    IN  IF v.raised THEN v
        ELSE IF central.raised THEN central
        ELSE IF optimistic.raised THEN optimistic
        ELSE IF pessimistic.raised THEN pessimistic
        ELSE PReturned(<<central.value, optimistic.value, pessimistic.value>>)

\* Every q_x of the bridge is a number written here
BridgeWritten(lc, kt_val) ==
    /\ kt_val.k \in {"num", "nan", "inf"}
    /\ \A x \in 1..Len(lc.ages) : BridgeQx(lc, kt_val)[x].k # "unwritten"

Radix == Int2F(2^RadixLog)

Half == Frac(1, 2)

QuantilePairs ==
    { <<Int2F(0), Int2F(1)>>, <<Int2F(0), Half>>, <<Half, Int2F(1)>>, <<Int2F(1), Int2F(0)>> }

\* The years asked for: from the last observed year to beyond every horizon
QueryYears(lc) == lc.years[Len(lc.years)]..(lc.years[Len(lc.years)] + MaxHorizon + 1)

\* The ages asked for: from below the first age to above the last
QueryAges(lc) == (lc.ages[1] - 1)..(lc.ages[Len(lc.ages)] + 1)

AgeBounds(lc) == {{}} \cup {{lc.ages[x]} : x \in 1..(Len(lc.ages) - 1)}

InitProj ==
    /\ \E m \in 1..Len(FittedModels), base \in 1..Len(StreamPatterns) :
          pin = [status |-> "ready", lee_carter |-> FittedModels[m],
                 streams |-> StreamsFrom(base)]
    /\ proj = <<>>
    /\ pcall = Idle
    /\ src = Idle /\ req = Idle /\ ds = Idle /\ obj = Idle /\ call = Idle
    /\ gin = Idle /\ gout = Idle /\ lin = Idle /\ lout = Idle
    /\ cache = Idle /\ loads = Idle /\ ccall = Idle

\* MortalityProjection(lee_carter, horizon, n_simulations, random_seed); two
\* constructions are followed, and no call is made between them
NewProjection ==
    /\ Len(proj) <= 1
    /\ pcall = Idle
    /\ \E horizon \in 1..MaxHorizon, n_simulations \in 1..MaxSims,
          random_seed \in Seeds, fresh \in Seeds :
          proj' = Append(proj, Projection(pin.lee_carter, horizon, n_simulations, random_seed,
                                          DefaultRng(pin.streams, random_seed, fresh)))
    /\ UNCHANGED <<src, req, ds, obj, call, gin, gout, lin, lout, pin, pcall,
                 cache, loads, ccall>>

CallGetProjectedMx ==
    /\ Len(proj) = 1
    /\ pcall = Idle
    /\ \E age \in QueryAges(pin.lee_carter), year \in QueryYears(pin.lee_carter) :
          pcall' = [fn |-> "get_projected_mx",
                    args |-> [age |-> age, year |-> year],
                    out |-> GetProjectedMx(proj[1], age, year)]
    /\ UNCHANGED <<src, req, ds, obj, call, gin, gout, lin, lout, pin, proj,
                 cache, loads, ccall>>

CallGetConfidenceInterval ==
    /\ Len(proj) = 1
    /\ pcall = Idle
    /\ \E age \in QueryAges(pin.lee_carter), year \in QueryYears(pin.lee_carter),
          quantiles \in QuantilePairs :
          pcall' = [fn |-> "get_confidence_interval",
                    args |-> [age |-> age, year |-> year, quantiles |-> quantiles],
                    out |-> GetConfidenceInterval(proj[1], age, year, quantiles)]
    /\ UNCHANGED <<src, req, ds, obj, call, gin, gout, lin, lout, pin, proj,
                 cache, loads, ccall>>

\* The call is followed when every q_x of the bridge is a number written here
CallToLifeTable ==
    /\ Len(proj) = 1
    /\ pcall = Idle
    /\ \E year \in QueryYears(pin.lee_carter),
          age_min \in AgeBounds(pin.lee_carter), age_max \in AgeBounds(pin.lee_carter) :
          /\ LET v == ValidateProjectionYear(proj[1], year)
             IN  IF v.raised THEN TRUE
                 ELSE BridgeWritten(pin.lee_carter, proj[1].kt_central[v.value + 1])
          /\ pcall' = [fn |-> "to_life_table",
                       args |-> [year |-> year, age_min |-> age_min, age_max |-> age_max],
                       out |-> ToLifeTable(proj[1], year, Radix, age_min, age_max)]
    /\ UNCHANGED <<src, req, ds, obj, call, gin, gout, lin, lout, pin, proj,
                 cache, loads, ccall>>

\* The call is followed when every q_x of the three bridges is a number
\* written here
CallToLifeTableWithCi ==
    /\ Len(proj) = 1
    /\ pcall = Idle
    /\ \E year \in QueryYears(pin.lee_carter), quantiles \in QuantilePairs :
          /\ LET v == ValidateProjectionYear(proj[1], year)
                 kt_sims == [i \in 1..proj[1].n_simulations |->
                               proj[1].kt_simulated[i][v.value + 1]]
             IN  IF v.raised THEN TRUE
                 ELSE /\ BridgeWritten(pin.lee_carter, proj[1].kt_central[v.value + 1])
                      /\ BridgeWritten(pin.lee_carter, Quantile(kt_sims, quantiles[1]))
                      /\ BridgeWritten(pin.lee_carter, Quantile(kt_sims, quantiles[2]))
          /\ pcall' = [fn |-> "to_life_table_with_ci",
                       args |-> [year |-> year, quantiles |-> quantiles],
                       out |-> ToLifeTableWithCi(proj[1], year, quantiles[1], quantiles[2], Radix)]
    /\ UNCHANGED <<src, req, ds, obj, call, gin, gout, lin, lout, pin, proj,
                 cache, loads, ccall>>

\* The caller takes the outcome; the methods leave the projection as it was
TakeOutcome ==
    /\ pcall # Idle
    /\ pcall' = Idle
    /\ UNCHANGED <<src, req, ds, obj, call, gin, gout, lin, lout, pin, proj,
                 cache, loads, ccall>>

NextProj ==
    \/ NewProjection
    \/ TakeOutcome
    \/ CallGetProjectedMx
    \/ CallGetConfidenceInterval
    \/ CallToLifeTable
    \/ CallToLifeTableWithCi

SpecProj == InitProj /\ [][NextProj]_vars

LastObserved(p) == p.lee_carter.years[Len(p.lee_carter.years)]

\* last observed year + 1 ... last observed year + horizon
IsProjectedYear(p, year) == year > LastObserved(p) /\ year <= LastObserved(p) + p.horizon

\* C14: a call of to_life_table, to_life_table_with_ci, get_projected_mx or
\* get_confidence_interval for a year that is not one of the projected years
\* raises the out-of-range error (ValueError), and returns no table or rate.
C14_YearOutOfRange ==
    (pcall # Idle /\ ~IsProjectedYear(proj[1], pcall.args.year))
        => (pcall.out.raised /\ pcall.out.error = "ValueError")

\* The four methods have refused the last observed year and the year one
\* past the horizon; here to_life_table_with_ci, one year past the horizon
C14_Witness ==
    /\ pcall # Idle
    /\ pcall.fn = "to_life_table_with_ci"
    /\ pcall.args.year = LastObserved(proj[1]) + proj[1].horizon + 1
    /\ pcall.out.raised
    /\ pcall.out.error = "ValueError"

IsModelAge(p, age) == \E x \in 1..Len(p.lee_carter.ages) : p.lee_carter.ages[x] = age

\* C15: get_projected_mx and get_confidence_interval, asked for an age that
\* is not an age of the fitted model (below the first, above the last, or
\* absent), raise an error and return no rate.
C15_AgeOutOfRange ==
    (/\ pcall # Idle
     /\ pcall.fn \in {"get_projected_mx", "get_confidence_interval"}
     /\ ~IsModelAge(proj[1], pcall.args.age))
        => pcall.out.raised

\* The life tables a call has returned
TablesOf(c) ==
    IF c = Idle \/ c.out.raised THEN {}
    ELSE IF c.fn = "to_life_table" THEN {c.out.value}
    ELSE IF c.fn = "to_life_table_with_ci" THEN {c.out.value[i] : i \in 1..3}
    ELSE {}

TerminalIsOne(t) == FEq(t.q_x[t.max_age], Int2F(1))

AllProbabilities(t) ==
    \A age \in t.min_age..t.max_age :
        FLe(Int2F(0), t.q_x[age]) /\ FLe(t.q_x[age], Int2F(1))

DecreasingWhereDying(t) ==
    \A age \in t.min_age..(t.max_age - 1) :
        FGt(t.q_x[age], Int2F(0)) => FLt(t.l_x[age + 1], t.l_x[age])

\* C16: every life table the bridge returns has death probability exactly 1
\* at its terminal age, every death probability in [0, 1], and survivors
\* strictly fewer at the next age wherever the death probability is > 0.
C16_BridgedTable ==
    \A t \in TablesOf(pcall) :
        TerminalIsOne(t) /\ AllProbabilities(t) /\ DecreasingWhereDying(t)

SameArguments(p, q) ==
    /\ p.lee_carter = q.lee_carter
    /\ p.drift = q.drift /\ p.sigma = q.sigma
    /\ p.random_seed = q.random_seed
    /\ p.horizon = q.horizon
    /\ p.n_simulations = q.n_simulations

\* C17: two projections built from the same fitted model with the same seed,
\* horizon and simulation count have the same simulated paths, entry for entry.
C17_SameSeedSamePaths ==
    \A i \in 1..Len(proj), j \in 1..Len(proj) :
        SameArguments(proj[i], proj[j]) =>
            \A r \in 1..proj[i].n_simulations, h \in 1..proj[i].horizon :
                proj[i].kt_simulated[r][h] = proj[j].kt_simulated[r][h]

\* Two projections of MaxSims paths over MaxHorizon years, same arguments, of
\* a model with volatility: the paths are not all the central one
C17_Witness ==
    /\ Len(proj) = 2
    /\ SameArguments(proj[1], proj[2])
    /\ proj[1].n_simulations = MaxSims /\ proj[1].horizon = MaxHorizon
    /\ FGt(proj[1].sigma, Int2F(0))
    /\ \E r \in 1..MaxSims, h \in 1..MaxHorizon :
          proj[1].kt_simulated[r][h] # proj[1].kt_central[h]

\* (last observed - first observed) / (number of years - 1), of whole numbers
ExpectedDrift(kt) == Frac(kt[Len(kt)].n - kt[1].n, Len(kt) - 1)

\* Every step of the index is the first step
PerfectlyLinear(kt) ==
    \A t \in 1..(Len(kt) - 1) : FSub(kt[t + 1], kt[t]) = FSub(kt[2], kt[1])

CentralPathFollowsDrift(p) ==
    LET kt == p.lee_carter.kt
    IN  /\ FEq(p.drift, ExpectedDrift(kt))
        /\ FSgn(p.drift) = Sgn(kt[Len(kt)].n - kt[1].n)
        /\ Len(p.kt_central) = p.horizon
        /\ \A h \in 1..p.horizon :
              FEq(p.kt_central[h], FAdd(kt[Len(kt)], FMul(Int2F(h), ExpectedDrift(kt))))

LinearIndexHasNoVolatility(p) ==
    LET kt == p.lee_carter.kt
    IN  PerfectlyLinear(kt) =>
            FEq(p.drift, FSub(kt[2], kt[1])) /\ FEq(p.sigma, Int2F(0))

\* C18: the central path at step h is last observed + h * drift with drift =
\* (last observed - first observed) / (number of years - 1), whatever the sign
\* of the drift; for a perfectly linear time index the drift is its slope and
\* the volatility is 0.
C18_CentralPath ==
    \A i \in 1..Len(proj) :
        CentralPathFollowsDrift(proj[i]) /\ LinearIndexHasNoVolatility(proj[i])

\* upper - lower of get_confidence_interval(age, year, quantiles)
CiWidth(p, age, year, quantiles) ==
    LET ci == GetConfidenceInterval(p, age, year, quantiles).value
    IN  FSub(ci[2], ci[1])

WidthNonDecreasing(p, age, quantiles) ==
    \A h \in 1..(p.horizon - 1) :
        FLe(CiWidth(p, age, LastObserved(p) + h, quantiles),
            CiWidth(p, age, LastObserved(p) + h + 1, quantiles))

\* C19: for a fixed age and a fixed quantile pair, the width (upper - lower)
\* of the interval get_confidence_interval returns is non-decreasing in the
\* projected year, across the whole horizon.  Stated of the call made, for
\* its age and quantile pair, and the intervals of all the projected years.
C19_WidthNonDecreasing ==
    (/\ pcall # Idle
     /\ pcall.fn = "get_confidence_interval"
     /\ ~pcall.out.raised
     /\ IsModelAge(proj[1], pcall.args.age))
        => WidthNonDecreasing(proj[1], pcall.args.age, pcall.args.quantiles)

\* At every non-terminal age the optimistic table's death probability is at
\* most the pessimistic table's
OptimisticBelowPessimistic(tables) ==
    \A age \in tables[2].min_age..(tables[2].max_age - 1) :
        FLe(tables[2].q_x[age], tables[3].q_x[age])

OrderedQuantiles(c) == FLe(c.args.quantiles[1], c.args.quantiles[2])

\* C20: the optimistic table of to_life_table_with_ci, called with
\* quantile_low <= quantile_high, has at every non-terminal age a death
\* probability less than or equal to that of the pessimistic table.
C20_OptimisticBelowPessimistic ==
    (/\ pcall # Idle
     /\ pcall.fn = "to_life_table_with_ci"
     /\ ~pcall.out.raised
     /\ OrderedQuantiles(pcall))
        => OptimisticBelowPessimistic(pcall.out.value)

ReturnedTable(c) == c # Idle /\ c.fn = "to_life_table" /\ ~c.out.raised

\* The 1-based position of an age among the ages of the model
AgePosition(lc, age) == CHOOSE x \in 1..Len(lc.ages) : lc.ages[x] = age

\* The survivor count the bridge has built for an age, before any masking
BridgedLx(p, year, age) ==
    BuildLx(BridgeQx(p.lee_carter, p.kt_central[year - LastObserved(p)]), Radix,
            AgePosition(p.lee_carter, age))

StartsAtFirstModelAge(c) ==
    c.args.age_min = {} \/ c.args.age_min = {proj[1].lee_carter.ages[1]}

\* C21 as stated: whatever age_min and age_max, the table returned by
\* to_life_table has the radix as survivor count at its minimum age.
C21_Original ==
    ReturnedTable(pcall) =>
        FEq(pcall.out.value.l_x[pcall.out.value.min_age], Radix)

\* C21, amended: the table returned by to_life_table has the radix as
\* survivor count at its minimum age when age_min is absent or is the first
\* age of the model; with a higher age_min the table starts with the
\* survivor count that the cohort of the radix, followed from the first
\* age of the model, has at that age.
C21_RadixAtFirstModelAge ==
    ReturnedTable(pcall) =>
        LET t == pcall.out.value
        IN  /\ StartsAtFirstModelAge(pcall) => FEq(t.l_x[t.min_age], Radix)
            /\ FEq(t.l_x[t.min_age],
                   BridgedLx(proj[1], pcall.args.year, t.min_age))

\* A table cut at age_max, starting at the first age of the model with the
\* radix, after an age with deaths
C21_Witness ==
    /\ ReturnedTable(pcall)
    /\ pcall.args.age_min = {} /\ pcall.args.age_max # {}
    /\ pcall.out.value.l_x[pcall.out.value.min_age] = Radix
    /\ FGt(pcall.out.value.q_x[pcall.out.value.min_age], Int2F(0))

\* ---------------------------------------------------------------------------
\* C22-C30
\* ---------------------------------------------------------------------------

ValidationErrors == {"nan", "nonpositive_mx", "nonpositive_ex", "inconsistent"}

ValidationFailed == ds.status = "error" /\ ds.err \in ValidationErrors

\* C22: every validation failure at construction of a dataset (a NaN, a
\* non-positive rate, a non-positive exposure, a rate that differs from
\* deaths over exposure by more than 1%) raises an error whose message names
\* an (age, year) cell.
C22_FailureNamesCell ==
    ValidationFailed => ds.named # {}

\* A failure of the checks that do name a cell: the non-positive rates and
\* the inconsistency
C22_NamedFailure ==
    /\ ValidationFailed
    /\ ds.err \in {"nonpositive_mx", "inconsistent"}
    /\ ds.named # {}

\* A failure for a NaN, and one for a non-positive exposure
C22_NaNFailure == ValidationFailed /\ ds.err = "nan"

C22_ExposureFailure == ValidationFailed /\ ds.err = "nonpositive_ex"

\* S[0]**2 / np.sum(S**2) of the residual of the surface fitted
VarianceRatios ==
    {FDiv(sv.top2, sv.all2) :
        sv \in Svd(Residual(lin.data), Len(lin.data.ages), Len(lin.data.years))}

InUnitInterval(v) == FLe(Int2F(0), v) /\ FLe(v, Int2F(1))

\* validate()["no_nan"]
NoNaN(m) ==
    /\ \A x \in 1..Len(m.ages) : ~IsNaN(m.ax[x]) /\ ~IsNaN(m.bx[x])
    /\ \A t \in 1..Len(m.years) : ~IsNaN(m.kt[t])

ConstantOverYears(data) ==
    \A p \in DOMAIN data.mx : data.mx[p] = data.mx[<<p[1], 1>>]

\* C23: the explained variance kept by fit is the square of the top
\* singular value over the sum of the squares of all of them, it lies in
\* [0, 1] and is never NaN, whatever the surface (one that is constant over
\* the years included), and no fitted parameter is NaN.
C23_ExplainedVariance ==
    Fitted =>
        /\ lout.explained_variance \in VarianceRatios
        /\ InUnitInterval(lout.explained_variance)
        /\ NoNaN(lout)

\* The part of C23 that holds on every surface: the value kept is the ratio
\* of the squares, and when it is a number it is in [0, 1].
C23_RatioOfSquares ==
    Fitted =>
        /\ lout.explained_variance \in VarianceRatios
        /\ IsNaN(lout.explained_variance) \/ InUnitInterval(lout.explained_variance)

\* A fit of a surface constant over the years: 0 / 0
C23_ConstantSurface ==
    /\ Fitted /\ ConstantOverYears(lin.data)
    /\ IsNaN(lout.explained_variance)

\* A fit of a surface that varies, with an explained variance strictly
\* between 0 and 1 and a NaN parameter
C23_VaryingSurface ==
    /\ Fitted /\ ~ConstantOverYears(lin.data)
    /\ FLt(Int2F(0), lout.explained_variance) /\ FLt(lout.explained_variance, Int2F(1))

\* np.mean(kt_simulated, axis=0)[h - 1]
SimulatedMean(p, h) ==
    Mean([i \in 1..p.n_simulations |-> p.kt_simulated[i][h]], p.n_simulations)

\* The mean over the paths of the cumulated draws of the generator of the
\* seed, at step h
MeanWalk(p, h) ==
    LET walk == CumSum(Normal(DefaultRng(pin.streams, p.random_seed, p.random_seed),
                              p.n_simulations, p.horizon))
    IN  Mean([i \in 1..p.n_simulations |-> walk[i][h]], p.n_simulations)

\* C24: at every projected step the mean over the simulated paths tends to
\* the central path as the number of paths grows.  The paths are the
\* central path plus sigma times the cumulated standard normal draws, so
\* the mean is away from the central path by sigma times the mean of the
\* cumulated draws, which the law of large numbers sends to zero: checked
\* here as that equality, at every step of every projection.
C24_MeanNearCentral ==
    \A n \in 1..Len(proj) : \A h \in 1..proj[n].horizon :
        FEq(FSub(SimulatedMean(proj[n], h), proj[n].kt_central[h]),
            FMul(proj[n].sigma, MeanWalk(proj[n], h)))

\* The same, for the projections whose volatility is a number
C24_MeanNearCentralWhenVolatile ==
    \A n \in 1..Len(proj) : \A h \in 1..proj[n].horizon :
        IsNum(proj[n].sigma) =>
            FEq(FSub(SimulatedMean(proj[n], h), proj[n].kt_central[h]),
                FMul(proj[n].sigma, MeanWalk(proj[n], h)))

\* Two paths with a volatility, whose draws cancel at a step (the mean is
\* on the central path) and do not at another
C24_Witness ==
    /\ Len(proj) >= 1 /\ proj[1].n_simulations = 2 /\ proj[1].horizon = 2
    /\ FGt(proj[1].sigma, Int2F(0))
    /\ \E h \in 1..2 : FEq(SimulatedMean(proj[1], h), proj[1].kt_central[h])
    /\ \E h \in 1..2 : ~FEq(SimulatedMean(proj[1], h), proj[1].kt_central[h])

\* C25: constructing the smoothed surface leaves the rates, deaths and
\* exposures of the input dataset as they were; the surface has the ages,
\* the years and the shape of the input, its deaths and exposures are the
\* input's, and the raw rates it retains are the input's rates.
C25_InputKept ==
    [][gout'.status = "ok" =>
          /\ gin' = gin
          /\ gout'.ages = gin.data.ages /\ gout'.years = gin.data.years
          /\ DOMAIN gout'.mx = DOMAIN gin.data.mx
          /\ gout'.dx = gin.data.dx /\ gout'.ex = gin.data.ex
          /\ gout'.raw_mx = gin.data.mx]_vars

\* A surface whose smoothed rates differ from the raw ones at a cell
C25_Witness ==
    /\ Graduated
    /\ \E p \in GradCells : ~IsNaN(gout.mx[p]) /\ gout.mx[p] # gin.data.mx[p]
    /\ gout.raw_mx = gin.data.mx

\* The largest number of points the difference operator is built for
MaxPoints == 5

RECURSIVE Binomial(_, _)
Binomial(h, j) ==
    IF j = 0 \/ j = h THEN 1 ELSE Binomial(h - 1, j - 1) + Binomial(h - 1, j)

\* (-1)^j C(h, j)
SignedBinomial(h, j) == (IF j % 2 = 0 THEN 1 ELSE -1) * Binomial(h, j)

RECURSIVE IntPow(_, _)
IntPow(x, d) == IF d = 0 THEN 1 ELSE x * IntPow(x, d - 1)

\* D @ v for v[x] = x^d
AppliedToPower(D, d) ==
    [i \in 1..D.r |->
        FSumTo(D.c, [x \in 1..D.c |-> FMul(D.e[<<i, x>>], Int2F(IntPow(x, d)))])]

HasBinomialRows(D, n, h) ==
    /\ D.r = n - h /\ D.c = n
    /\ DOMAIN D.e = (1..(n - h)) \X (1..n)
    /\ \A p \in DOMAIN D.e :
          D.e[p] = Int2F(IF p[2] - p[1] \in 0..h THEN SignedBinomial(h, p[2] - p[1]) ELSE 0)

AnnihilatesBelow(D, h) ==
    \A d \in 0..(h - 1) : \A i \in 1..D.r : AppliedToPower(D, d)[i] = Int2F(0)

TotalDeaths(t) ==
    FSumTo(t.max_age - t.min_age + 1,
           [i \in 1..(t.max_age - t.min_age + 1) |-> t.d_x[t.min_age + i - 1]])

DeathsAreDecrements(t) ==
    /\ \A age \in t.min_age..(t.max_age - 1) :
          FEq(t.d_x[age], FSub(t.l_x[age], t.l_x[age + 1]))
    /\ FEq(t.d_x[t.max_age], t.l_x[t.max_age])

DeathsSumToRadix(t) == FEq(TotalDeaths(t), t.l_x[t.min_age])

HasNaNSurvivors(t) == \E age \in t.min_age..t.max_age : IsNaN(t.l_x[age])

\* C26: in every life table the bridge returns, the deaths of an age below
\* the terminal one are the survivors of the age less those of the next,
\* the deaths of the terminal age are its survivors, and the deaths of all
\* the ages sum to the survivors of the minimum age.
C26_DeathsSumToSurvivors ==
    \A t \in TablesOf(pcall) : DeathsAreDecrements(t) /\ DeathsSumToRadix(t)

\* The same, of the tables whose survivor counts are all numbers
C26_DeathsSumWhereNumbers ==
    \A t \in TablesOf(pcall) :
        ~HasNaNSurvivors(t) => DeathsAreDecrements(t) /\ DeathsSumToRadix(t)

\* A table with deaths at two ages or more that sum to the radix
C26_Witness ==
    \E t \in TablesOf(pcall) :
        /\ DeathsAreDecrements(t) /\ FEq(TotalDeaths(t), Radix)
        /\ Cardinality({age \in t.min_age..t.max_age : FGt(t.d_x[age], Int2F(0))}) >= 2

\* The (year, age) keys of a source of from_inegi, inside the window and
\* after the ages above the ceiling are folded
CappedKeys(t) ==
    DOMAIN CapAgesSum(FilterYears(src[t], req.year_start, req.year_end), req.age_max)

\* The keys that one of the two sources has and the other has not
UnmatchedKeys ==
    (CappedKeys("dx") \ CappedKeys("ex")) \cup (CappedKeys("ex") \ CappedKeys("dx"))

\* C28: from_inegi fails when a (year, age) key of the window, after the
\* capping of the ages, is in one of the two sources and not in the other;
\* it never returns a dataset that leaves the cell out.
C28_UnmatchedKeyFails ==
    (Built /\ ds.loader = "inegi" /\ ds.status # "error") => UnmatchedKeys = {}

\* A whole year that only the deaths have, the other years being complete:
\* the joined rows alone would make a complete surface
C28_Witness ==
    /\ Built /\ ds.loader = "inegi" /\ ds.status = "error"
    /\ ds.err = "shape_mismatch"
    /\ CappedKeys("ex") # {}
    /\ \E y \in Window :
          /\ UnmatchedKeys = {c \in CappedKeys("dx") : c[1] = y}
          /\ UnmatchedKeys # {}

\* to_life_table(year, radix) of the year of the call c, without age bounds
UnboundedTable(c) == ToLifeTable(proj[1], c.args.year, Radix, {}, {})

SameTable(t, u) ==
    /\ t.min_age = u.min_age /\ t.max_age = u.max_age
    /\ DOMAIN t.l_x = DOMAIN u.l_x
    /\ \A age \in DOMAIN t.l_x : FEq(t.l_x[age], u.l_x[age])
    /\ \A age \in t.min_age..t.max_age : FEq(t.q_x[age], u.q_x[age])

\* C29: for every projected year and radix the central table of
\* to_life_table_with_ci is the table of to_life_table called without age
\* bounds: the same ages, survivor counts and death probabilities; when
\* one of the two calls raises, the other raises the same error.
C29_CentralIsToLifeTable ==
    (pcall # Idle /\ pcall.fn = "to_life_table_with_ci") =>
        IF pcall.out.raised
        THEN UnboundedTable(pcall).raised /\ UnboundedTable(pcall).error = pcall.out.error
        ELSE /\ ~UnboundedTable(pcall).raised
             /\ SameTable(pcall.out.value[1], UnboundedTable(pcall).value)

\* Three tables returned, the central one with deaths at the first age and
\* different from the optimistic one
C29_Witness ==
    /\ pcall # Idle /\ pcall.fn = "to_life_table_with_ci" /\ ~pcall.out.raised
    /\ FLt(pcall.out.value[1].l_x[pcall.out.value[1].min_age + 1], Radix)
    /\ ~SameTable(pcall.out.value[1], pcall.out.value[2])
    /\ SameTable(pcall.out.value[1], UnboundedTable(pcall).value)

(***************************************************************************)
(* api/services/precomputed: the start-up cache (SpecCache).               *)
(*                                                                         *)
(* The objects load_all builds are known here by their name and by the     *)
(* call of load_all that built them.  A stage of load_all fails by raising *)
(* an Exception, whose str() is the message kept; which stage fails, if    *)
(* any, is the input of a call.                                            *)
(***************************************************************************)
MaxLoads == 2    \* bound: calls of load_all that are followed

PyNone == [k |-> "None"]

PyStr(s) == [k |-> "str", s |-> s]

\* The statements of the try block of load_all, in their order
Stages ==
    << "data_source", "mortality_data", "graduated", "lee_carter", "projection",
       "cnsf_lt", "emssa_lt", "cnsf_lt_female", "emssa_lt_female" >>

StageOf(name) == CHOOSE k \in 1..Len(Stages) : Stages[k] = name

Slots == {Stages[k] : k \in 2..Len(Stages)}

\* str(exc)
Messages == {"", "sex must be 'Hombres', 'Mujeres', or 'Total'"}

Loaded(name, n) == [k |-> "object", name |-> name, load |-> n]

\* load_all, the n-th call: the stage "fail" raises (0: none does)
LoadAllOutcome(c, n, source, fail, msg) ==
    LET done(name) == fail = 0 \/ StageOf(name) < fail
    IN  [name \in Slots \cup {"data_source", "load_error"} |->
            IF name = "load_error" THEN (IF fail = 0 THEN PyNone ELSE PyStr(msg))
            ELSE IF ~done(name) THEN c[name]
            ELSE IF name = "data_source" THEN source
            ELSE Loaded(name, n)]

\* (variant: only the object is tested, not the error of the last load)
CheckLoaded_NoErrorTest(c, o) ==
    IF o = PyNone THEN PRaised("RuntimeError: not loaded")
    ELSE PReturned(o)

\* _check_loaded
CheckLoaded(c, o) ==
    IF c.load_error # PyNone THEN PRaised("RuntimeError: data loading failed at startup")
    ELSE IF o = PyNone THEN PRaised("RuntimeError: not loaded")
    ELSE PReturned(o)

GetMortalityData(c) == CheckLoaded(c, c.mortality_data)

GetGraduated(c) == CheckLoaded(c, c.graduated)

GetLeeCarter(c) == CheckLoaded(c, c.lee_carter)

GetProjection(c) == CheckLoaded(c, c.projection)

GetDataSource(c) == PReturned(c.data_source)

GetRegulatoryLt(c, table_type, sex) ==
    LET key == <<table_type, sex>>
    IN  IF key \notin {"cnsf", "emssa"} \X {"male", "female"} THEN PRaised("ValueError")
        ELSE CheckLoaded(c, CASE key = <<"cnsf", "male">> -> c.cnsf_lt
                              [] key = <<"cnsf", "female">> -> c.cnsf_lt_female
                              [] key = <<"emssa", "male">> -> c.emssa_lt
                              [] key = <<"emssa", "female">> -> c.emssa_lt_female)

\* get_projected_life_table; is_projected: the year is one of the projected
\* years of the cached projection (to_life_table raises ValueError if not)
GetProjectedLifeTable(c, year, is_projected) ==
    LET p == GetProjection(c)
    IN  IF p.raised THEN p
        ELSE IF ~is_projected THEN PRaised("ValueError")
        ELSE PReturned([k |-> "object", name |-> "life_table", of |-> p.value, year |-> year])

InitCache ==
    /\ cache = [name \in Slots \cup {"data_source", "load_error"} |->
                   IF name = "data_source" THEN "unknown" ELSE PyNone]
    /\ loads = <<>>
    /\ ccall = Idle
    /\ src = Idle /\ req = Idle /\ ds = Idle /\ obj = Idle /\ call = Idle
    /\ gin = Idle /\ gout = Idle /\ lin = Idle /\ lout = Idle
    /\ pin = Idle /\ proj = Idle /\ pcall = Idle

LoadAll ==
    /\ Len(loads) < MaxLoads
    /\ ccall = Idle
    /\ \E fail \in 0..Len(Stages), source \in {"real", "mock"}, msg \in Messages :
          /\ cache' = LoadAllOutcome(cache, Len(loads) + 1, source, fail, msg)
          /\ loads' = Append(loads, fail)
    /\ UNCHANGED <<src, req, ds, obj, call, gin, gout, lin, lout, pin, proj, pcall, ccall>>

Answered(fn, args, out) ==
    /\ ccall = Idle
    /\ ccall' = [fn |-> fn, args |-> args, out |-> out]
    /\ UNCHANGED <<src, req, ds, obj, call, gin, gout, lin, lout, pin, proj, pcall,
                   cache, loads>>

CallGetMortalityData == Answered("get_mortality_data", <<>>, GetMortalityData(cache))

CallGetGraduated == Answered("get_graduated", <<>>, GetGraduated(cache))

CallGetLeeCarter == Answered("get_lee_carter", <<>>, GetLeeCarter(cache))

CallGetProjection == Answered("get_projection", <<>>, GetProjection(cache))

CallGetDataSource == Answered("get_data_source", <<>>, GetDataSource(cache))

CallGetRegulatoryLt ==
    \E table_type \in {"cnsf", "emssa", "other"}, sex \in {"male", "female", "other"} :
        Answered("get_regulatory_lt", <<table_type, sex>>,
                 GetRegulatoryLt(cache, table_type, sex))

CallGetProjectedLifeTable ==
    \E year \in {2020, 2021}, is_projected \in BOOLEAN :
        /\ is_projected = (year = 2021)
        /\ Answered("get_projected_life_table", <<year>>,
                    GetProjectedLifeTable(cache, year, is_projected))

\* The caller takes the outcome
TakeCached ==
    /\ ccall # Idle
    /\ ccall' = Idle
    /\ UNCHANGED <<src, req, ds, obj, call, gin, gout, lin, lout, pin, proj, pcall,
                   cache, loads>>

NextCache ==
    \/ LoadAll
    \/ CallGetMortalityData \/ CallGetGraduated \/ CallGetLeeCarter
    \/ CallGetProjection \/ CallGetDataSource
    \/ CallGetRegulatoryLt \/ CallGetProjectedLifeTable
    \/ TakeCached

SpecCache == InitCache /\ [][NextCache]_vars

\* No load_all has run, or the last one failed
NotLoaded == loads = <<>> \/ loads[Len(loads)] # 0

CachedAccessors ==
    {"get_mortality_data", "get_graduated", "get_lee_carter", "get_projection",
     "get_regulatory_lt", "get_projected_life_table"}

\* C30: before load_all has run, and after a load_all that failed at any
\* stage until a later one succeeds, every accessor of the cached mortality
\* data, smoothed surface, fitted model, projection, projected life table
\* and regulatory tables raises; none returns an object, not even one that
\* was loaded before the stage that failed.
C30_NothingServedUnlessLoaded ==
    (NotLoaded /\ ccall # Idle /\ ccall.fn \in CachedAccessors) => ccall.out.raised

\* A load that succeeded, then one that failed at its last stage: the
\* mortality data of the second load is in the cache, and its accessor raises
C30_Witness ==
    /\ Len(loads) = 2 /\ loads[1] = 0 /\ loads[2] = Len(Stages)
    /\ cache.mortality_data = Loaded("mortality_data", 2)
    /\ ccall # Idle /\ ccall.fn = "get_mortality_data" /\ ccall.out.raised

=============================================================================
